---- MODULE Spec2Model ----
(***************************************************************************)
(* Life Desk bot: the per-user input mode kept in the user_input_states    *)
(* table and the webhook router that reads, consumes and clears it.        *)
(* Every storage call of a handler is one atomic step; handlers of         *)
(* different webhook requests interleave between their storage calls.      *)
(***************************************************************************)
EXTENDS Integers, Sequences, FiniteSets, TLC

(* ------------------------------ bounds --------------------------------- *)
MaxUsers == 2
MaxHandlers == 2
MaxUpdates == 3
MaxClock == 1
MaxChecks == 2
MaxReminders == 2
MaxRequests == 2

Users == 1..MaxUsers
Handlers == 1..MaxHandlers
Checks == 1..MaxChecks

(* ------------------------------ inputs --------------------------------- *)
\* message.text samples, one character per element
TextBuyMilk == <<"b","u","y"," ","m","i","l","k">>
TextCoffee == <<"1","5"," ","c","o","f","f","e","e">>
TextNote == <<"/","n","o","t","e">>
TextTodo == <<"/","T","o","d","o">>
TextExpense == <<"/","e","x","p","e","n","s","e">>
TextHelp == <<"/","h","e","l","p">>
Texts == {TextBuyMilk, TextCoffee, TextNote, TextTodo, TextExpense, TextHelp}

\* callback_query.data samples, already split on ':'
Datas == {<<"create_note">>, <<"create_todo">>, <<"create_expense">>,
          <<"complete_todo", "7">>}

Modes == {"note", "todo", "expense"}

NoText == <<>>
NoData == <<>>
NoState == [id |-> 0, user_id |-> 0, mode |-> "none", created_at |-> 0]
NoUpdate == [kind |-> "none", chat |-> 0, text |-> NoText, data |-> NoData]

\* no request is served; no response has been returned
NoRequest == [method |-> "none", path |-> "none", BOT_TOKEN |-> FALSE,
              body |-> NoUpdate]
NoResponse == [status |-> 0, text |-> "none"]

\* TelegramUpdate: a text message, a photo message, a message with neither,
\* or a callback query
TelegramUpdate ==
    [kind : {"text"}, chat : Users, text : Texts, data : {NoData}]
    \cup [kind : {"photo", "other"}, chat : Users, text : {NoText}, data : {NoData}]
    \cup [kind : {"callback"}, chat : Users, text : {NoText}, data : Datas]

(* --------------------------- pure functions ---------------------------- *)
Digits == {"0","1","2","3","4","5","6","7","8","9"}
Whitespace == {" ", "\n"}

RECURSIVE TrimLeft(_)
TrimLeft(s) ==
    IF s # <<>> /\ Head(s) \in Whitespace THEN TrimLeft(Tail(s)) ELSE s

RECURSIVE TrimRight(_)
TrimRight(s) ==
    IF s # <<>> /\ s[Len(s)] \in Whitespace
    THEN TrimRight(SubSeq(s, 1, Len(s) - 1)) ELSE s

\* String.prototype.trim
Trim(s) == TrimRight(TrimLeft(s))

AllIn(s, from, to, set) == \A i \in from..to : s[i] \in set

\* positions k such that s[1..k] matches \d+(?:\.\d{2})?
AmountEnds(s) ==
    {k \in 1..Len(s) :
        \/ AllIn(s, 1, k, Digits)
        \/ /\ k >= 4
           /\ AllIn(s, 1, k - 3, Digits)
           /\ s[k - 2] = "."
           /\ AllIn(s, k - 1, k, Digits)}

\* parseExpense: text.match(/^(\d+(?:\.\d{2})?)\s+(.+)$/) gives a result
parseExpense(s) ==
    \E k \in AmountEnds(s) : \E j \in (k + 1)..(Len(s) - 1) :
        AllIn(s, k + 1, j, Whitespace)

\* text.startsWith('/')
StartsWithSlash(s) == s # <<>> /\ Head(s) = "/"

\* String.prototype.toLowerCase, on one character
Lower(c) ==
    CASE c = "T" -> "t"
      [] c = "R" -> "r"
      [] c = "A" -> "a"
      [] c = "P" -> "p"
      [] c = "M" -> "m"
      [] OTHER -> c

\* String.prototype.toUpperCase, on one character
Upper(c) ==
    CASE c = "t" -> "T"
      [] c = "r" -> "R"
      [] c = "a" -> "A"
      [] c = "p" -> "P"
      [] c = "m" -> "M"
      [] OTHER -> c

RECURSIVE FirstWord(_)
FirstWord(s) ==
    IF s = <<>> \/ Head(s) = " " THEN <<>>
    ELSE <<Lower(Head(s))>> \o FirstWord(Tail(s))

\* text.split(' ')[0].toLowerCase()
Command(s) == FirstWord(s)

(* ------------------------------- state --------------------------------- *)
VARIABLES
    user_input_states,  \* rows of the table: id, user_id, mode, created_at
    notes,              \* number of rows of the notes table, per user
    todos,              \* number of rows of the todos table, per user
    expenses,           \* number of rows of the expenses table, per user
    nextId,             \* crypto.randomUUID(): ids are fresh
    clock,              \* Date.now()
    received,           \* number of updates received by the webhook
    pc,                 \* position of each handleTelegramUpdate call
    update,             \* the update a handler works on
    no,                 \* arrival number of that update
    inputMode,          \* the handler's local inputMode (row read or NoState)
    text,               \* the text handed to parseReminderFromText
    reminderDetection,  \* the object parseReminderFromText returned
    reminders,          \* rows of the reminders table
    checks,             \* each checkAndSendReminders call: position, rows left
    delivered,          \* reminder messages sent to the chat, per reminder id
    request,            \* the HTTP request each app.fetch call serves
    response            \* the HTTP response it has returned, if any

vars == <<user_input_states, notes, todos, expenses, nextId, clock, received,
          pc, update, no, inputMode, text, reminderDetection, reminders,
          checks, delivered, request, response>>

parserVars == <<text, reminderDetection>>

\* reminderDetection before parseReminderFromText has returned
NotDetected == [returned |-> FALSE]

tables == <<notes, todos, expenses>>

StatesOf(u) == {r \in user_input_states : r.user_id = u}

\* the tables are empty and no request is in flight
InitWebhook ==
    /\ user_input_states = {}
    /\ notes = [u \in Users |-> 0]
    /\ todos = [u \in Users |-> 0]
    /\ expenses = [u \in Users |-> 0]
    /\ nextId = 1
    /\ received = 0
    /\ pc = [h \in Handlers |-> "idle"]
    /\ update = [h \in Handlers |-> NoUpdate]
    /\ no = [h \in Handlers |-> 0]
    /\ inputMode = [h \in Handlers |-> NoState]
    /\ request = [h \in Handlers |-> NoRequest]
    /\ response = [h \in Handlers |-> NoResponse]

\* no reminder exists and no reminder check runs
NoReminders ==
    /\ reminders = {}
    /\ checks = [c \in Checks |-> [pc |-> "idle", pending |-> <<>>]]
    /\ delivered = [i \in 1..MaxReminders |-> 0]

Init ==
    /\ InitWebhook
    /\ clock = 0
    /\ text = NoText
    /\ reminderDetection = NotDetected
    /\ NoReminders

(* --------------------------- DatabaseService --------------------------- *)
\* INSERT OR REPLACE INTO user_input_states (id, user_id, mode, created_at):
\* the only uniqueness constraint of the table is PRIMARY KEY (id)
InsertOrReplace(rows, row) == {r \in rows : r.id # row.id} \cup {row}

\* setUserInputState: a fresh random id, then INSERT OR REPLACE
setUserInputState(rows, id, u, mode, now) ==
    InsertOrReplace(rows, [id |-> id, user_id |-> u, mode |-> mode,
                           created_at |-> now])

\* getUserInputState: SELECT * ... WHERE user_id = ? then .first(); the query
\* has no ORDER BY, so any row of the user may come first
getUserInputState(rows, u) ==
    IF {r \in rows : r.user_id = u} = {} THEN {NoState}
    ELSE {r \in rows : r.user_id = u}

\* a delete that removes a single row of the user (DELETE ... LIMIT 1)
clearOneUserInputState(rows, u) ==
    IF {r \in rows : r.user_id = u} = {} THEN rows
    ELSE rows \ {CHOOSE r \in rows :
                     /\ r.user_id = u
                     /\ \A q \in rows : q.user_id = u => r.id <= q.id}

\* clearUserInputState: DELETE FROM user_input_states WHERE user_id = ?
clearUserInputState(rows, u) == {r \in rows : r.user_id # u}

(* ------------------------------ handlers ------------------------------- *)
\* positions of a handleTelegramUpdate call:
\*   idle     no request in this slot
\*   start    update received, nothing done yet
\*   input    inside handleUserInput, before the creation operation
\*   clear    inside handleUserInput, before clearUserInputState
\*   route    no pending mode: AI query or command switch
\*   catch    an error was thrown inside the try block
\*   done        returned normally
\*   apologized  returned from the catch block, the apology was sent
\*   aborted     returned from the catch block without an apology
Active(h) == pc[h] \in {"start", "input", "clear", "route", "catch"}

Returned(h) == pc[h] \in {"done", "apologized", "aborted"}

\* app.post('/webhook'): a request arrives and handleTelegramUpdate is called
\* (requests are anonymous: the lowest free slot takes the next one)
Receive(h) ==
    /\ pc[h] = "idle"
    /\ \A g \in Handlers : g < h => pc[g] # "idle"
    /\ received < MaxUpdates
    /\ \E u \in TelegramUpdate : update' = [update EXCEPT ![h] = u]
    /\ received' = received + 1
    /\ no' = [no EXCEPT ![h] = received + 1]
    /\ pc' = [pc EXCEPT ![h] = "start"]
    /\ UNCHANGED <<user_input_states, tables, nextId, clock, inputMode>>
    /\ UNCHANGED <<parserVars, reminders, checks, delivered, request, response>>

\* the same, when Telegram delivers the next update only after the webhook
\* has answered the previous one
ReceiveInTurn(h) ==
    /\ \A g \in Handlers : pc[g] = "idle"
    /\ Receive(h)

\* app.post('/webhook'): handleTelegramUpdate has returned, c.text('OK')
Respond(h) ==
    /\ Returned(h)
    /\ pc' = [pc EXCEPT ![h] = "idle"]
    /\ update' = [update EXCEPT ![h] = NoUpdate]
    /\ no' = [no EXCEPT ![h] = 0]
    /\ inputMode' = [inputMode EXCEPT ![h] = NoState]
    /\ UNCHANGED <<user_input_states, tables, nextId, clock, received>>
    /\ UNCHANGED <<parserVars, reminders, checks, delivered, request, response>>

\* time passes
Tick ==
    /\ clock < MaxClock
    /\ clock' = clock + 1
    /\ UNCHANGED <<user_input_states, tables, nextId, received, pc, update,
                   no, inputMode>>
    /\ UNCHANGED <<parserVars, reminders, checks, delivered, request, response>>

\* start*Input: setUserInputState(chatId, mode)
startInput(h, mode) ==
    /\ user_input_states' =
           setUserInputState(user_input_states, nextId, update[h].chat, mode, clock)
    /\ nextId' = nextId + 1

\* handleCallbackQuery: answerCallbackQuery and updateUserActivity, then the
\* switch on the action; create_* call start*Input, which writes the mode
\* row and then edits the message. Any of the calls may throw.
HandleCallbackQuery(h) ==
    /\ pc[h] = "start"
    /\ update[h].kind = "callback"
    /\ \/ /\ pc' = [pc EXCEPT ![h] = "catch"]
          /\ UNCHANGED <<user_input_states, nextId>>
       \/ /\ CASE update[h].data[1] = "create_note" -> startInput(h, "note")
               [] update[h].data[1] = "create_todo" -> startInput(h, "todo")
               [] update[h].data[1] = "create_expense" -> startInput(h, "expense")
               [] OTHER -> UNCHANGED <<user_input_states, nextId>>
          /\ \E p \in {"done", "catch"} : pc' = [pc EXCEPT ![h] = p]
    /\ UNCHANGED <<tables, clock, received, update, no, inputMode>>
    /\ UNCHANGED <<parserVars, reminders, checks, delivered, request, response>>

\* handlePhotoMessage: updateUserActivity, a processing message, the AI call
HandlePhotoMessage(h) ==
    /\ pc[h] = "start"
    /\ update[h].kind = "photo"
    /\ \E p \in {"done", "catch"} : pc' = [pc EXCEPT ![h] = p]
    /\ UNCHANGED <<user_input_states, tables, nextId, clock, received, update,
                   no, inputMode>>
    /\ UNCHANGED <<parserVars, reminders, checks, delivered, request, response>>

\* a message with neither photo nor text: if (!message.text) return
IgnoreUpdate(h) ==
    /\ pc[h] = "start"
    /\ update[h].kind = "other"
    /\ pc' = [pc EXCEPT ![h] = "done"]
    /\ UNCHANGED <<user_input_states, tables, nextId, clock, received, update,
                   no, inputMode>>
    /\ UNCHANGED <<parserVars, reminders, checks, delivered, request, response>>

\* getUserInputMode with a time-to-live: rows written before now are dropped
\* by the read
GetUserInputModeExpiring(h) ==
    /\ pc[h] = "start"
    /\ update[h].kind = "text"
    /\ user_input_states' = {r \in user_input_states : r.created_at >= clock}
    /\ \/ \E r \in getUserInputState(user_input_states', update[h].chat) :
             /\ inputMode' = [inputMode EXCEPT ![h] = r]
             /\ pc' = [pc EXCEPT ![h] = IF r # NoState THEN "input" ELSE "route"]
       \/ /\ pc' = [pc EXCEPT ![h] = "catch"]
          /\ UNCHANGED inputMode
    /\ UNCHANGED <<tables, nextId, clock, received, update, no>>
    /\ UNCHANGED <<parserVars, reminders, checks, delivered, request, response>>

\* a router that looks at the leading '/' before it reads the mode row
GetUserInputModeUnlessCommand(h) ==
    /\ pc[h] = "start"
    /\ update[h].kind = "text"
    /\ \/ /\ StartsWithSlash(update[h].text)
          /\ pc' = [pc EXCEPT ![h] = "route"]
          /\ UNCHANGED inputMode
       \/ /\ ~StartsWithSlash(update[h].text)
          /\ \E r \in getUserInputState(user_input_states, update[h].chat) :
                 /\ inputMode' = [inputMode EXCEPT ![h] = r]
                 /\ pc' = [pc EXCEPT ![h] = IF r # NoState THEN "input" ELSE "route"]
       \/ /\ pc' = [pc EXCEPT ![h] = "catch"]
          /\ UNCHANGED inputMode
    /\ UNCHANGED <<user_input_states, tables, nextId, clock, received, update,
                   no>>
    /\ UNCHANGED <<parserVars, reminders, checks, delivered, request, response>>

\* const inputMode = await commandHandler.getUserInputMode(chatId); the
\* storage call may throw, and nothing but the outer catch block catches it
GetUserInputMode(h) ==
    /\ pc[h] = "start"
    /\ update[h].kind = "text"
    /\ \/ \E r \in getUserInputState(user_input_states, update[h].chat) :
             /\ inputMode' = [inputMode EXCEPT ![h] = r]
             /\ pc' = [pc EXCEPT ![h] = IF r # NoState THEN "input" ELSE "route"]
       \/ /\ pc' = [pc EXCEPT ![h] = "catch"]
          /\ UNCHANGED inputMode
    /\ UNCHANGED <<user_input_states, tables, nextId, clock, received, update,
                   no>>
    /\ UNCHANGED <<parserVars, reminders, checks, delivered, request, response>>

\* processNoteInput: createNote, then the reply
processNoteInput(h) ==
    /\ notes' = [notes EXCEPT ![update[h].chat] = @ + 1]
    /\ UNCHANGED <<todos, expenses>>

\* processTodoInput: createTodo, then the reply
processTodoInput(h) ==
    /\ todos' = [todos EXCEPT ![update[h].chat] = @ + 1]
    /\ UNCHANGED <<notes, expenses>>

\* processExpenseInput without the early return of the 'Invalid format' branch
processExpenseInputNoReturn(h) ==
    /\ expenses' = [expenses EXCEPT ![update[h].chat] = @ + 1]
    /\ UNCHANGED <<notes, todos>>

\* processExpenseInput: parseExpense(text.trim()); without a result only the
\* 'Invalid format' reply is sent, otherwise createExpense and the reply
processExpenseInput(h) ==
    IF parseExpense(Trim(update[h].text))
    THEN /\ expenses' = [expenses EXCEPT ![update[h].chat] = @ + 1]
         /\ UNCHANGED <<notes, todos>>
    ELSE UNCHANGED <<notes, todos, expenses>>

\* handleUserInput up to its last statement: updateUserActivity, then the
\* switch on inputState.mode. An error thrown before the record is written
\* (updateUserActivity, create*) or after it (the reply) leaves through the
\* catch block of handleTelegramUpdate.
HandleUserInput(h) ==
    /\ pc[h] = "input"
    /\ \/ /\ pc' = [pc EXCEPT ![h] = "catch"]
          /\ UNCHANGED tables
       \/ /\ CASE inputMode[h].mode = "note" -> processNoteInput(h)
               [] inputMode[h].mode = "todo" -> processTodoInput(h)
               [] inputMode[h].mode = "expense" -> processExpenseInput(h)
          /\ \E p \in {"clear", "catch"} : pc' = [pc EXCEPT ![h] = p]
    /\ UNCHANGED <<user_input_states, nextId, clock, received, update, no,
                   inputMode>>
    /\ UNCHANGED <<parserVars, reminders, checks, delivered, request, response>>

\* the last statement of handleUserInput: await clearUserInputState(chatId)
ClearInputState(h) ==
    /\ pc[h] = "clear"
    /\ \/ /\ user_input_states' =
                 clearUserInputState(user_input_states, update[h].chat)
          /\ pc' = [pc EXCEPT ![h] = "done"]
       \/ /\ pc' = [pc EXCEPT ![h] = "catch"]
          /\ UNCHANGED user_input_states
    /\ UNCHANGED <<tables, nextId, clock, received, update, no, inputMode>>
    /\ UNCHANGED <<parserVars, reminders, checks, delivered, request, response>>

\* text without a command and without a pending mode: handleAIQuery
HandleAIQuery(h) ==
    /\ pc[h] = "route"
    /\ ~StartsWithSlash(update[h].text)
    /\ \E p \in {"done", "catch"} : pc' = [pc EXCEPT ![h] = p]
    /\ UNCHANGED <<user_input_states, tables, nextId, clock, received, update,
                   no, inputMode>>
    /\ UNCHANGED <<parserVars, reminders, checks, delivered, request, response>>

\* a command switch in which /note, /todo and /expense start the input mode
HandleCommandStartsInput(h) ==
    /\ pc[h] = "route"
    /\ StartsWithSlash(update[h].text)
    /\ CASE Command(update[h].text) = TextNote -> startInput(h, "note")
         [] Command(update[h].text) = Command(TextTodo) -> startInput(h, "todo")
         [] Command(update[h].text) = TextExpense -> startInput(h, "expense")
         [] OTHER -> UNCHANGED <<user_input_states, nextId>>
    /\ \E p \in {"done", "catch"} : pc' = [pc EXCEPT ![h] = p]
    /\ UNCHANGED <<tables, clock, received, update, no, inputMode>>
    /\ UNCHANGED <<parserVars, reminders, checks, delivered, request, response>>

\* the command switch: /note, /todo and /expense show the list of records
\* (refreshNotesList, refreshTodosList, refreshExpensesList); no branch of
\* the switch writes user_input_states
HandleCommand(h) ==
    /\ pc[h] = "route"
    /\ StartsWithSlash(update[h].text)
    /\ \E p \in {"done", "catch"} : pc' = [pc EXCEPT ![h] = p]
    /\ UNCHANGED <<user_input_states, tables, nextId, clock, received, update,
                   no, inputMode>>
    /\ UNCHANGED <<parserVars, reminders, checks, delivered, request, response>>

\* a catch block that lets the failure of the apology escape
CatchRethrows(h) ==
    /\ pc[h] = "catch"
    /\ \E p \in {"apologized", "thrown"} : pc' = [pc EXCEPT ![h] = p]
    /\ UNCHANGED <<user_input_states, tables, nextId, clock, received, update,
                   no, inputMode>>
    /\ UNCHANGED <<parserVars, reminders, checks, delivered, request, response>>

\* the catch block of handleTelegramUpdate: if the update has a chat id the
\* apology is sent, once; a failure of that sendMessage is caught by the
\* inner try and only logged; the call returns
Catch(h) ==
    /\ pc[h] = "catch"
    /\ \/ /\ update[h].chat # 0
          /\ pc' = [pc EXCEPT ![h] = "apologized"]
       \/ pc' = [pc EXCEPT ![h] = "aborted"]
    /\ UNCHANGED <<user_input_states, tables, nextId, clock, received, update,
                   no, inputMode>>
    /\ UNCHANGED <<parserVars, reminders, checks, delivered, request, response>>

\* one step of some handler
Step ==
    \/ \E h \in Handlers : HandleCallbackQuery(h)
    \/ \E h \in Handlers : HandlePhotoMessage(h)
    \/ \E h \in Handlers : IgnoreUpdate(h)
    \/ \E h \in Handlers : GetUserInputMode(h)
    \/ \E h \in Handlers : HandleUserInput(h)
    \/ \E h \in Handlers : ClearInputState(h)
    \/ \E h \in Handlers : HandleAIQuery(h)
    \/ \E h \in Handlers : HandleCommand(h)
    \/ \E h \in Handlers : Catch(h)
    \/ \E h \in Handlers : Respond(h)
    \/ Tick

\* updates are delivered one at a time
Next ==
    \/ \E h \in Handlers : ReceiveInTurn(h)
    \/ Step

Spec == Init /\ [][Next]_vars

\* webhook requests overlap: their storage calls interleave
NextConc ==
    \/ \E h \in Handlers : Receive(h)
    \/ Step

SpecConc == Init /\ [][NextConc]_vars

(* ------------------------------ app.fetch ------------------------------ *)
\* the requests the worker is sent: a method, a path, the BOT_TOKEN of the
\* environment it runs in, and a body (NoUpdate: the body is not JSON)
Requests ==
    [method : {"GET", "POST"},
     path : {"/", "/webhook", "/db-stats", "/unknown"},
     BOT_TOKEN : BOOLEAN, body : {NoUpdate}]
    \cup [method : {"POST"}, path : {"/webhook"}, BOT_TOKEN : BOOLEAN,
          body : TelegramUpdate]

\* a request arrives, after the previous one has been answered
Fetch(h) ==
    /\ \A g \in Handlers :
           /\ pc[g] = "idle" \/ response[g] # NoResponse
           /\ h <= g
    /\ received < MaxRequests
    /\ \E r \in Requests : request' = [request EXCEPT ![h] = r]
    /\ response' = [response EXCEPT ![h] = NoResponse]
    /\ received' = received + 1
    /\ no' = [no EXCEPT ![h] = received + 1]
    /\ pc' = [pc EXCEPT ![h] = "middleware"]
    /\ update' = [update EXCEPT ![h] = NoUpdate]
    /\ inputMode' = [inputMode EXCEPT ![h] = NoState]
    /\ UNCHANGED <<user_input_states, tables, nextId, clock>>
    /\ UNCHANGED <<parserVars, reminders, checks, delivered>>

\* a middleware that checks the token on the webhook path only
CheckBotTokenOnWebhook(h) ==
    /\ pc[h] = "middleware"
    /\ IF ~request[h].BOT_TOKEN /\ request[h].path = "/webhook"
       THEN /\ response' = [response EXCEPT ![h] =
                   [status |-> 500, text |-> "Bot token not configured"]]
            /\ pc' = [pc EXCEPT ![h] = "responded"]
       ELSE /\ pc' = [pc EXCEPT ![h] = "routing"]
            /\ UNCHANGED response
    /\ UNCHANGED <<user_input_states, tables, nextId, clock, received, update,
                   no, inputMode, request>>
    /\ UNCHANGED <<parserVars, reminders, checks, delivered>>

\* app.use('*'): the middleware runs for every path and method, before any
\* route; without BOT_TOKEN it answers itself and next() is not called
CheckBotToken(h) ==
    /\ pc[h] = "middleware"
    /\ IF ~request[h].BOT_TOKEN
       THEN /\ response' = [response EXCEPT ![h] =
                   [status |-> 500, text |-> "Bot token not configured"]]
            /\ pc' = [pc EXCEPT ![h] = "responded"]
       ELSE /\ pc' = [pc EXCEPT ![h] = "routing"]
            /\ UNCHANGED response
    /\ UNCHANGED <<user_input_states, tables, nextId, clock, received, update,
                   no, inputMode, request>>
    /\ UNCHANGED <<parserVars, reminders, checks, delivered>>

\* next(): the route registered for the method and path runs, app.notFound
\* if there is none. GET / returns the status page; POST /webhook reads the
\* body with c.req.json(), whose error the route's catch answers with 500,
\* and calls handleTelegramUpdate; GET /db-stats returns JSON, 500 on error
Route(h) ==
    /\ pc[h] = "routing"
    /\ CASE request[h].method = "GET" /\ request[h].path = "/" ->
              /\ response' = [response EXCEPT ![h] =
                     [status |-> 200, text |-> "html"]]
              /\ pc' = [pc EXCEPT ![h] = "responded"]
              /\ UNCHANGED update
         [] request[h].method = "POST" /\ request[h].path = "/webhook" ->
              IF request[h].body = NoUpdate
              THEN /\ response' = [response EXCEPT ![h] =
                          [status |-> 500, text |-> "Error processing webhook"]]
                   /\ pc' = [pc EXCEPT ![h] = "responded"]
                   /\ UNCHANGED update
              ELSE /\ update' = [update EXCEPT ![h] = request[h].body]
                   /\ pc' = [pc EXCEPT ![h] = "start"]
                   /\ UNCHANGED response
         [] request[h].method = "GET" /\ request[h].path = "/db-stats" ->
              /\ \E st \in {200, 500} :
                     response' = [response EXCEPT ![h] =
                         [status |-> st, text |-> "json"]]
              /\ pc' = [pc EXCEPT ![h] = "responded"]
              /\ UNCHANGED update
         [] OTHER ->
              /\ response' = [response EXCEPT ![h] =
                     [status |-> 404, text |-> "Not Found"]]
              /\ pc' = [pc EXCEPT ![h] = "responded"]
              /\ UNCHANGED update
    /\ UNCHANGED <<user_input_states, tables, nextId, clock, received, no,
                   inputMode, request>>
    /\ UNCHANGED <<parserVars, reminders, checks, delivered>>

\* app.post('/webhook'): handleTelegramUpdate has returned, c.text('OK')
ReturnOK(h) ==
    /\ Returned(h)
    /\ response[h] = NoResponse
    /\ response' = [response EXCEPT ![h] = [status |-> 200, text |-> "OK"]]
    /\ UNCHANGED <<user_input_states, tables, nextId, clock, received, pc,
                   update, no, inputMode, request>>
    /\ UNCHANGED <<parserVars, reminders, checks, delivered>>

\* the worker serves one request after the other
SpecApp ==
    Init /\ [][\/ \E h \in Handlers : Fetch(h)
               \/ \E h \in Handlers : CheckBotToken(h)
               \/ \E h \in Handlers : Route(h)
               \/ \E h \in Handlers : HandleCallbackQuery(h)
               \/ \E h \in Handlers : HandlePhotoMessage(h)
               \/ \E h \in Handlers : IgnoreUpdate(h)
               \/ \E h \in Handlers : GetUserInputMode(h)
               \/ \E h \in Handlers : HandleUserInput(h)
               \/ \E h \in Handlers : ClearInputState(h)
               \/ \E h \in Handlers : HandleAIQuery(h)
               \/ \E h \in Handlers : HandleCommand(h)
               \/ \E h \in Handlers : Catch(h)
               \/ \E h \in Handlers : ReturnOK(h)]_vars

(* ------------------------- regular expressions ------------------------- *)
\* A pattern is a tree of nodes; Match gives the ways a node matches s from
\* position i, in the order in which the backtracking matcher of RegExp
\* tries them, each with the position after the match and the captures.
Undefined == <<"undefined">>

LineTerminators == {"\n"}

Chr(set) == [t |-> "chr", set |-> set]
Dot == [t |-> "dot"]
Eos == [t |-> "eos"]
Cat(items) == [t |-> "seq", items |-> items]
Alt(items) == [t |-> "alt", items |-> items]
Grp(n, item) == [t |-> "grp", n |-> n, item |-> item]
Rep(item, min, max, greedy) ==
    [t |-> "rep", item |-> item, min |-> min, max |-> max, greedy |-> greedy]

\* x?  x*  x+  x{m,n}  x+?
Opt(item) == Rep(item, 0, 1, TRUE)
Star(item) == Rep(item, 0, -1, TRUE)
Plus(item) == Rep(item, 1, -1, TRUE)
Times(item, min, max) == Rep(item, min, max, TRUE)
LazyPlus(item) == Rep(item, 1, -1, FALSE)

\* a literal word, and the same under the i flag
Lit(w) == Cat([k \in 1..Len(w) |-> Chr({w[k]})])
LitI(w) == Cat([k \in 1..Len(w) |-> Chr({w[k], Upper(w[k])})])

\* \d  \s
D == Chr(Digits)
S == Chr(Whitespace)

NoCaps == <<Undefined, Undefined, Undefined, Undefined, Undefined, Undefined>>

RECURSIVE Match(_, _, _, _)
RECURSIVE MatchSeq(_, _, _, _, _)
RECURSIVE MatchRest(_, _, _, _, _)
RECURSIVE MatchAlt(_, _, _, _, _)
RECURSIVE MatchRep(_, _, _, _, _)
RECURSIVE MatchMore(_, _, _, _, _)

Match(node, s, i, caps) ==
    CASE node.t = "chr" ->
             IF i <= Len(s) /\ s[i] \in node.set
             THEN <<[end |-> i + 1, caps |-> caps]>> ELSE <<>>
      [] node.t = "dot" ->
             IF i <= Len(s) /\ s[i] \notin LineTerminators
             THEN <<[end |-> i + 1, caps |-> caps]>> ELSE <<>>
      [] node.t = "eos" ->
             IF i = Len(s) + 1 THEN <<[end |-> i, caps |-> caps]>> ELSE <<>>
      [] node.t = "grp" ->
             LET rs == Match(node.item, s, i, caps)
             IN [k \in 1..Len(rs) |->
                    [end |-> rs[k].end,
                     caps |-> [rs[k].caps EXCEPT
                                  ![node.n] = SubSeq(s, i, rs[k].end - 1)]]]
      [] node.t = "seq" -> MatchSeq(node.items, 1, s, i, caps)
      [] node.t = "alt" -> MatchAlt(node.items, 1, s, i, caps)
      [] node.t = "rep" -> MatchRep(node, 0, s, i, caps)

\* items[k..] in sequence
MatchSeq(items, k, s, i, caps) ==
    IF k > Len(items) THEN <<[end |-> i, caps |-> caps]>>
    ELSE MatchRest(items, k, s, Match(items[k], s, i, caps), 1)

\* the continuations of the matches rs[j..] of items[k]
MatchRest(items, k, s, rs, j) ==
    IF j > Len(rs) THEN <<>>
    ELSE MatchSeq(items, k + 1, s, rs[j].end, rs[j].caps)
             \o MatchRest(items, k, s, rs, j + 1)

\* the alternatives items[k..], left to right
MatchAlt(items, k, s, i, caps) ==
    IF k > Len(items) THEN <<>>
    ELSE Match(items[k], s, i, caps) \o MatchAlt(items, k + 1, s, i, caps)

\* a quantifier after count iterations: a greedy one tries another
\* iteration before stopping, a lazy one stops before trying another
MatchRep(node, count, s, i, caps) ==
    LET more == IF node.max >= 0 /\ count >= node.max THEN <<>>
                ELSE MatchMore(node, count, s, Match(node.item, s, i, caps), 1)
        stop == IF count >= node.min THEN <<[end |-> i, caps |-> caps]>> ELSE <<>>
    IN IF node.greedy THEN more \o stop ELSE stop \o more

\* the continuations of the iterations rs[j..]
MatchMore(node, count, s, rs, j) ==
    IF j > Len(rs) THEN <<>>
    ELSE MatchRep(node, count + 1, s, rs[j].end, rs[j].caps)
             \o MatchMore(node, count, s, rs, j + 1)

NoMatch == [index |-> 0, end |-> 0, caps |-> NoCaps]

\* the first way to match at the leftmost position from i on that has one
RECURSIVE MatchFrom(_, _, _)
MatchFrom(s, re, i) ==
    IF i > Len(s) + 1 THEN NoMatch
    ELSE LET rs == Match(re, s, i, NoCaps)
         IN IF rs # <<>>
            THEN [index |-> i, end |-> rs[1].end, caps |-> rs[1].caps]
            ELSE MatchFrom(s, re, i + 1)

\* String.prototype.match with a pattern without the g flag
RegExpMatch(s, re) == MatchFrom(s, re, 1)

\* s without the part that m matched
RemoveMatch(s, m) ==
    IF m = NoMatch THEN s
    ELSE SubSeq(s, 1, m.index - 1) \o SubSeq(s, m.end, Len(s))

\* String.prototype.replace(re, ''): the first match is cut out
RegExpRemove(s, re) == RemoveMatch(s, RegExpMatch(s, re))

\* String.prototype.toLowerCase
ToLowerCase(s) == [k \in 1..Len(s) |-> Lower(s[k])]

\* String.prototype.startsWith
StartsWithWord(s, w) == Len(s) >= Len(w) /\ SubSeq(s, 1, Len(w)) = w

\* String.prototype.includes
Includes(s, w) ==
    \E i \in 1..(Len(s) - Len(w) + 1) : SubSeq(s, i, i + Len(w) - 1) = w

(* -------------------------------- Date ---------------------------------- *)
\* A time value is counted in units of 30 s since 1970-01-01 00:00, so that
\* it multiplies by MsPerUnit to the milliseconds of Date.getTime(); local
\* time is UTC, as on the Workers runtime.
MsPerUnit == 30 * 1000
MsPerMinute == 60 * 1000
\* an hour with one factor 60 missing
MsPerHourShort == 60 * 1000
MsPerHour == 60 * 60 * 1000
MsPerDay == 24 * 60 * 60 * 1000

UnitsPerMinute == MsPerMinute \div MsPerUnit
UnitsPerHour == MsPerHour \div MsPerUnit
UnitsPerDay == MsPerDay \div MsPerUnit

\* the number that is no number; no time value of the model comes near it
NaN == 0 - 2^30

DaysInYear(y) ==
    IF y % 4 = 0 /\ (y % 100 # 0 \/ y % 400 = 0) THEN 366 ELSE 365

\* day number of January 1st of year y
DayFromYear(y) ==
    365 * (y - 1970) + ((y - 1969) \div 4) - ((y - 1901) \div 100)
        + ((y - 1601) \div 400)

\* days of a common year before month m (0 = January)
DaysBeforeMonth == <<0, 31, 59, 90, 120, 151, 181, 212, 243, 273, 304, 334>>

\* MakeDay: month and date beyond their range carry over
MakeDay(year, month, date) ==
    LET ym == year + (month \div 12)
        mn == month % 12
    IN DayFromYear(ym) + DaysBeforeMonth[mn + 1]
           + (IF mn >= 2 /\ DaysInYear(ym) = 366 THEN 1 ELSE 0) + date - 1

\* MakeTime with seconds and milliseconds 0
MakeTime(hour, min) ==
    IF hour = NaN \/ min = NaN THEN NaN
    ELSE hour * UnitsPerHour + min * UnitsPerMinute

\* new Date(year, month, day, hour, minutes, 0, 0).getTime(): a year from 0
\* to 99 stands for 1900 + year
NewDate(year, month, day, hour, minutes) ==
    IF MakeTime(hour, minutes) = NaN THEN NaN
    ELSE MakeDay(IF year >= 0 /\ year <= 99 THEN 1900 + year ELSE year,
                 month, day) * UnitsPerDay + MakeTime(hour, minutes)

\* Date.prototype.getHours
GetHours(t) == (t % UnitsPerDay) \div UnitsPerHour

\* Date.prototype.setHours(hour, minutes, 0, 0)
SetHours(t, hour, minutes) ==
    IF t = NaN \/ MakeTime(hour, minutes) = NaN THEN NaN
    ELSE (t \div UnitsPerDay) * UnitsPerDay + MakeTime(hour, minutes)

\* a date setter that always moves one day ahead
AddOneDay(t, days) == IF t = NaN THEN NaN ELSE t + UnitsPerDay

\* d.setDate(d.getDate() + days)
AddDays(t, days) == IF t = NaN THEN NaN ELSE t + days * UnitsPerDay

\* a <= b on numbers: false when one of them is NaN
LessOrEqual(a, b) == a # NaN /\ b # NaN /\ a <= b

DigitValue(c) ==
    CHOOSE n \in 0..9 : <<"0","1","2","3","4","5","6","7","8","9">>[n + 1] = c

RECURSIVE DigitsValue(_, _)
DigitsValue(s, acc) ==
    IF s = <<>> \/ Head(s) \notin Digits THEN acc
    ELSE DigitsValue(Tail(s), 10 * acc + DigitValue(Head(s)))

\* parseInt: the value of the leading digits, NaN when there is none
parseInt(s) ==
    IF s = <<>> \/ Head(s) \notin Digits THEN NaN ELSE DigitsValue(s, 0)

(* --------------------------- reminder parser --------------------------- *)
\* (am|pm)
AmPm == Alt(<<Lit(<<"a","m">>), Lit(<<"p","m">>)>>)

\* (\d{1,2})(?::(\d{2}))?\s*(am|pm)? with the groups numbered from g
HourMinute(g) ==
    <<Grp(g, Times(D, 1, 2)),
      Opt(Cat(<<Lit(<<":">>), Grp(g + 1, Times(D, 2, 2))>>)),
      Star(S),
      Opt(Grp(g + 2, AmPm))>>

\* (?:\s+(\d{1,2})(?::(\d{2}))?\s*(am|pm)?)?
OptionalTime == Opt(Cat(<<Plus(S)>> \o HourMinute(4)))

\* the characters of that part of a pattern's source text
OptionalTimeSource ==
    {"(", "?", ":", "\\", "s", "+", "d", "{", "1", ",", "2", "}", ")", "*",
     "a", "m", "|", "p"}

\* dateFormats: every pattern with the characters of its source
dateFormats ==
    <<[re |-> Cat(<<Grp(1, Times(D, 1, 2)), Lit(<<":">>),
                    Grp(2, Times(D, 1, 2)), Lit(<<":">>),
                    Grp(3, Times(D, 4, 4)), OptionalTime>>),
       source |-> {"(", "\\", "d", "{", "1", ",", "2", "}", ")", ":", "4"}
                      \cup OptionalTimeSource],
      [re |-> Cat(<<Grp(1, Times(D, 1, 2)), Lit(<<"/">>),
                    Grp(2, Times(D, 1, 2)), Lit(<<"/">>),
                    Grp(3, Times(D, 4, 4)), OptionalTime>>),
       source |-> {"(", "\\", "d", "{", "1", ",", "2", "}", ")", "/", "4"}
                      \cup OptionalTimeSource],
      [re |-> Cat(<<Grp(1, Times(D, 4, 4)), Lit(<<"-">>),
                    Grp(2, Times(D, 1, 2)), Lit(<<"-">>),
                    Grp(3, Times(D, 1, 2)), OptionalTime>>),
       source |-> {"(", "\\", "d", "{", "4", "}", ")", "-", "1", ",", "2"}
                      \cup OptionalTimeSource]>>

\* /today\s+(\d{1,2})(?::(\d{2}))?\s*(am|pm)?/
todayRegex == Cat(<<Lit(<<"t","o","d","a","y">>), Plus(S)>> \o HourMinute(1))

\* /tomorrow\s+(\d{1,2})(?::(\d{2}))?\s*(am|pm)?/
tomorrowRegex ==
    Cat(<<Lit(<<"t","o","m","o","r","r","o","w">>), Plus(S)>> \o HourMinute(1))

\* /in (\d+) hours?/
hoursRegex ==
    Cat(<<Lit(<<"i","n"," ">>), Grp(1, Plus(D)), Lit(<<" ","h","o","u","r">>),
          Opt(Lit(<<"s">>))>>)

\* /in (\d+) minutes?/
minutesRegex ==
    Cat(<<Lit(<<"i","n"," ">>), Grp(1, Plus(D)),
          Lit(<<" ","m","i","n","u","t","e">>), Opt(Lit(<<"s">>))>>)

\* (?:at\s+)?
OptionalAt == Opt(Cat(<<LitI(<<"a","t">>), Plus(S)>>))

\* (am|pm) under the i flag
AmPmI == Alt(<<LitI(<<"a","m">>), LitI(<<"p","m">>)>>)

\* the time formats without the last one, which takes a lone number
timeFormatsMarked ==
    <<Cat(<<OptionalAt, Grp(1, Times(D, 1, 2)), Lit(<<":">>),
            Grp(2, Times(D, 2, 2)), Star(S), Grp(3, AmPmI)>>),
      Cat(<<OptionalAt, Grp(1, Times(D, 1, 2)), Star(S), Grp(2, AmPmI)>>),
      Cat(<<OptionalAt, Grp(1, Times(D, 1, 2)), Lit(<<":">>),
            Grp(2, Times(D, 2, 2))>>)>>

\* timeFormats
timeFormats ==
    <<Cat(<<OptionalAt, Grp(1, Times(D, 1, 2)), Lit(<<":">>),
            Grp(2, Times(D, 2, 2)), Star(S), Grp(3, AmPmI)>>),
      Cat(<<OptionalAt, Grp(1, Times(D, 1, 2)), Star(S), Grp(2, AmPmI)>>),
      Cat(<<OptionalAt, Grp(1, Times(D, 1, 2)), Lit(<<":">>),
            Grp(2, Times(D, 2, 2))>>),
      Cat(<<OptionalAt, Grp(1, Times(D, 1, 2)),
            Opt(Cat(<<Lit(<<":">>), Grp(2, Times(D, 2, 2))>>))>>)>>

\* the am/pm rule without its exceptions for hour 12
HourOfAmPmPlain(hour, ampm) ==
    IF ampm = <<"p","m">> THEN hour + 12 ELSE hour

\* if (ampm === 'pm' && hour !== 12) hour += 12;
\* else if (ampm === 'am' && hour === 12) hour = 0;
HourOfAmPm(hour, ampm) ==
    IF ampm = <<"p","m">> /\ hour # 12 THEN hour + 12
    ELSE IF ampm = <<"a","m">> /\ hour = 12 THEN 0
    ELSE hour

\* the dateFormats loop body reading every date day first
DateOfMatchDayFirst(f, m) ==
    NewDate(parseInt(m.caps[3]), parseInt(m.caps[2]) - 1, parseInt(m.caps[1]),
            IF m.caps[4] # Undefined
            THEN HourOfAmPm(parseInt(m.caps[4]), m.caps[6]) ELSE 9,
            IF m.caps[4] # Undefined /\ m.caps[5] # Undefined
            THEN parseInt(m.caps[5]) ELSE 0)

\* the body of the dateFormats loop for its pattern f and the match m; the
\* branch is chosen by format.source.includes(':'), then includes('/')
DateOfMatch(f, m) ==
    LET month == IF ":" \in f.source THEN parseInt(m.caps[1]) - 1
                 ELSE IF "/" \in f.source THEN parseInt(m.caps[1]) - 1
                 ELSE parseInt(m.caps[2]) - 1
        day == IF ":" \in f.source THEN parseInt(m.caps[2])
               ELSE IF "/" \in f.source THEN parseInt(m.caps[2])
               ELSE parseInt(m.caps[3])
        year == IF ":" \in f.source THEN parseInt(m.caps[3])
                ELSE IF "/" \in f.source THEN parseInt(m.caps[3])
                ELSE parseInt(m.caps[1])
        hour == IF m.caps[4] # Undefined
                THEN HourOfAmPm(parseInt(m.caps[4]), m.caps[6]) ELSE 9
        minutes == IF m.caps[4] # Undefined /\ m.caps[5] # Undefined
                   THEN parseInt(m.caps[5]) ELSE 0
    IN NewDate(year, month, day, hour, minutes)

\* the body of the timeFormats loop for the match m
TimeOfMatch(m, now) ==
    LET hour0 == parseInt(m.caps[1])
        minutes == IF m.caps[2] # Undefined THEN parseInt(m.caps[2]) ELSE 0
        ampm == m.caps[3]
        hour == IF ampm # Undefined THEN HourOfAmPm(hour0, ToLowerCase(ampm))
                ELSE IF hour0 <= 12 /\ GetHours(now) >= 12 THEN hour0 + 12
                ELSE hour0
        targetTime == SetHours(now, hour, minutes)
    IN IF LessOrEqual(targetTime, now) THEN AddDays(targetTime, 1)
       ELSE targetTime

\* the first pattern of a list that matches, 0 when none does
FirstMatching(expr, res) ==
    LET ms == [k \in 1..Len(res) |-> RegExpMatch(expr, res[k])]
    IN IF \A k \in 1..Len(res) : ms[k] = NoMatch THEN 0
       ELSE CHOOSE k \in 1..Len(res) :
                ms[k] # NoMatch /\ \A j \in 1..(k - 1) : ms[j] = NoMatch

\* parseTimeExpression, with the value of new Date() as now
parseTimeExpression(timeExpression, now) ==
    LET expr == ToLowerCase(timeExpression)
        df == FirstMatching(expr, [k \in 1..Len(dateFormats) |-> dateFormats[k].re])
        todayMatch == RegExpMatch(expr, todayRegex)
        tomorrowMatch == RegExpMatch(expr, tomorrowRegex)
        hoursMatch == RegExpMatch(expr, hoursRegex)
        minutesMatch == RegExpMatch(expr, minutesRegex)
        tf == FirstMatching(expr, timeFormats)
    IN IF df # 0
       THEN DateOfMatch(dateFormats[df], RegExpMatch(expr, dateFormats[df].re))
       ELSE IF todayMatch # NoMatch
       THEN SetHours(now, HourOfAmPm(parseInt(todayMatch.caps[1]), todayMatch.caps[3]),
                     IF todayMatch.caps[2] # Undefined
                     THEN parseInt(todayMatch.caps[2]) ELSE 0)
       ELSE IF tomorrowMatch # NoMatch
       THEN SetHours(AddDays(now, 1),
                     HourOfAmPm(parseInt(tomorrowMatch.caps[1]), tomorrowMatch.caps[3]),
                     IF tomorrowMatch.caps[2] # Undefined
                     THEN parseInt(tomorrowMatch.caps[2]) ELSE 0)
       ELSE IF Includes(expr, <<"t","o","m","o","r","r","o","w">>)
       THEN SetHours(AddDays(now, 1), 9, 0)
       ELSE IF Includes(expr, <<"n","e","x","t"," ","w","e","e","k">>)
       THEN SetHours(AddDays(now, 7), 9, 0)
       ELSE IF hoursMatch # NoMatch
       THEN now + parseInt(hoursMatch.caps[1]) * UnitsPerHour
       ELSE IF minutesMatch # NoMatch
       THEN now + parseInt(minutesMatch.caps[1]) * UnitsPerMinute
       ELSE IF tf # 0
       THEN TimeOfMatch(RegExpMatch(expr, timeFormats[tf]), now)
       ELSE now + UnitsPerHour

\* /\s*(reminder|remainder)\s+at\s+(.+?)$/i
reminderRegex ==
    Cat(<<Star(S),
          Grp(1, Alt(<<LitI(<<"r","e","m","i","n","d","e","r">>),
                       LitI(<<"r","e","m","a","i","n","d","e","r">>)>>)),
          Plus(S), LitI(<<"a","t">>), Plus(S), Grp(2, LazyPlus(Dot)), Eos>>)

\* parseReminderFromText, with the value of new Date() as now
parseReminderFromText(txt, now) ==
    LET match == RegExpMatch(txt, reminderRegex)
    IN IF match = NoMatch THEN [hasReminder |-> FALSE]
       ELSE [hasReminder |-> TRUE,
             reminderTime |-> parseTimeExpression(Trim(match.caps[2]), now),
             cleanText |-> Trim(RegExpRemove(txt, reminderRegex))]

(* ---------------------------- parser inputs ---------------------------- *)
MaxN == 3

\* words and pieces of the sample texts, one character per element
AM == <<"a","m">>
PM == <<"p","m">>
WordToday == <<"t","o","d","a","y">>
WordTomorrow == <<"t","o","m","o","r","r","o","w">>
WordNextWeek == <<"n","e","x","t"," ","w","e","e","k">>
WordHours == <<" ","h","o","u","r","s">>
WordHour == <<" ","h","o","u","r">>
WordMinutes == <<" ","m","i","n","u","t","e","s">>
WordSometime == <<"s","o","m","e","t","i","m","e">>
WordSoon == <<"s","o","o","n">>
TextAboutDinner == <<" ","a","b","o","u","t"," ","d","i","n","n","e","r">>
TextAndEggs == <<"\n","a","n","d"," ","e","g","g","s">>
TextCallMom == <<"C","a","l","l"," ","m","o","m">>
KeywordReminder == <<" ","R","e","m","i","n","d","e","r"," ","a","t"," ">>
KeywordRemainder == <<" ","r","e","m","a","i","n","d","e","r"," ","A","T"," ">>
KeywordOnly == <<"R","e","m","i","n","d","e","r"," ","a","t">>
Time5pm == <<"5","p","m">>
Time9am == <<"9","a","m">>

RECURSIVE ToDigits(_)
ToDigits(n) ==
    IF n < 10 THEN <<<<"0","1","2","3","4","5","6","7","8","9">>[n + 1]>>
    ELSE ToDigits(n \div 10) \o ToDigits(n % 10)

TwoDigits(n) == IF n < 10 THEN <<"0">> \o ToDigits(n) ELSE ToDigits(n)

\* values of new Date(): 2024-01-15 at 00:00:00, 10:00:00, 10:00:30 and
\* 14:00:00, 2024-02-29 at 23:30:00, 2024-12-31 at 12:15:00
Nows ==
    {NewDate(2024, 0, 15, 0, 0), NewDate(2024, 0, 15, 10, 0),
     NewDate(2024, 0, 15, 10, 0) + 1, NewDate(2024, 0, 15, 14, 0),
     NewDate(2024, 1, 29, 23, 30), NewDate(2024, 11, 31, 12, 15)}

HourSamples == {0, 2, 5, 6, 7, 8, 9, 10, 12, 14}

\* no minutes written (<<>>), or :MM
MinuteSamples == {<<>>, <<0>>, <<30>>}

\* the am/pm marker and the way it is written
AmPmSamples ==
    {[ampm |-> <<>>, as |-> <<>>],
     [ampm |-> AM, as |-> AM],
     [ampm |-> PM, as |-> PM],
     [ampm |-> PM, as |-> <<" ","P","M">>]}

\* H[:MM][am|pm] as text, with the hour, the minutes and the marker it says
TimeSamples ==
    {[hour |-> h, minutes |-> m, ampm |-> a.ampm,
      text |-> ToDigits(h)
                  \o (IF m = <<>> THEN <<>> ELSE <<":">> \o TwoDigits(m[1]))
                  \o a.as] :
        h \in HourSamples, m \in MinuteSamples, a \in AmPmSamples}

\* a time of day on its own, with or without 'at '
BareTimeSamples ==
    {[time |-> t, text |-> at \o t.text] :
        t \in TimeSamples, at \in {<<>>, <<"a","t"," ">>}}

\* 'today ' or 'tomorrow ' and a time of day
DayTimeSamples ==
    {[days |-> d.days, time |-> t, text |-> d.word \o <<" ">> \o t.text] :
        d \in {[days |-> 0, word |-> WordToday],
               [days |-> 1, word |-> WordTomorrow]},
        t \in TimeSamples}

\* the times of day written after an explicit date
DateTimeSamples ==
    {t \in TimeSamples :
        \/ t.hour = 8 /\ t.minutes = <<>> /\ t.ampm = AM
        \/ t.hour = 7 /\ t.minutes = <<>> /\ t.ampm = PM
        \/ t.hour = 5 /\ t.minutes = <<30>> /\ t.ampm = PM
        \/ t.hour = 12 /\ t.minutes = <<>> /\ t.ampm # <<>>
        \/ t.hour = 14 /\ t.minutes = <<30>> /\ t.ampm = <<>>}

DateSamples ==
    {[year |-> 2026, month |-> 12, day |-> 2],
     [year |-> 2024, month |-> 2, day |-> 29],
     [year |-> 2027, month |-> 3, day |-> 14]}

\* how a date and an optional time of day (<<>> for none) are written
DateText(style, d, t) ==
    (CASE style = ":" ->
              ToDigits(d.month) \o <<":">> \o ToDigits(d.day) \o <<":">>
                  \o ToDigits(d.year)
       [] style = "/" ->
              ToDigits(d.month) \o <<"/">> \o ToDigits(d.day) \o <<"/">>
                  \o ToDigits(d.year)
       [] style = "-" ->
              ToDigits(d.year) \o <<"-">> \o ToDigits(d.month) \o <<"-">>
                  \o ToDigits(d.day))
        \o (IF t = <<>> THEN <<>> ELSE <<" ">> \o t[1].text)

ExplicitDateSamples ==
    {[style |-> st, date |-> d, time |-> t, text |-> DateText(st, d, t)] :
        st \in {":", "/", "-"}, d \in DateSamples,
        t \in {<<>>} \cup {<<x>> : x \in DateTimeSamples}}

\* 'in N hours' and 'in N minutes', N written in digits
RelativeSamples ==
    {[n |-> n, unit |-> u.unit, text |-> <<"i","n"," ">> \o ToDigits(n) \o u.word] :
        n \in 1..MaxN,
        u \in {[unit |-> "hour", word |-> WordHours],
               [unit |-> "hour", word |-> WordHour],
               [unit |-> "minute", word |-> WordMinutes]}}

\* phrases that no rule of parseTimeExpression matches
UnparseableSamples == {WordSometime, WordSoon}

\* expressions in which the patterns of several rules match, and
\* expressions with a digit or a day word that fit no rule as a whole; first
\* names the pattern that parseTimeExpression tries first among those that
\* match: the date formats, today + time, tomorrow + time, 'tomorrow',
\* 'next week', 'in N hours', 'in N minutes', the time formats, or none
RuleOrderSamples ==
    LET date1 == DateText(":", [year |-> 2026, month |-> 12, day |-> 2], <<>>)
        date2 == DateText("/", [year |-> 2026, month |-> 12, day |-> 2], <<>>)
        in2h == <<"i","n"," ">> \o ToDigits(2) \o WordHours
        in3m == <<"i","n"," ">> \o ToDigits(3) \o WordMinutes
        sp == <<" ">>
    IN {[first |-> "date", text |-> date2 \o sp \o WordTomorrow],
        [first |-> "date", text |-> WordNextWeek \o sp \o date1],
        [first |-> "date", text |-> in2h \o sp \o date2],
        [first |-> "date", text |-> Time5pm \o sp \o date1],
        [first |-> "date", text |-> WordTomorrow \o sp \o Time5pm \o sp \o date2],
        [first |-> "today", text |-> WordTomorrow \o sp \o WordToday \o <<" ","6","p","m">>],
        [first |-> "today", text |-> in2h \o sp \o WordToday \o <<" ","6","p","m">>],
        [first |-> "tomorrow at", text |-> WordNextWeek \o sp \o WordTomorrow \o <<" ","7","p","m">>],
        [first |-> "tomorrow at", text |-> WordTomorrow \o <<" ","7","p","m">> \o sp \o in3m],
        [first |-> "tomorrow", text |-> WordNextWeek \o sp \o WordTomorrow],
        [first |-> "tomorrow", text |-> in2h \o sp \o WordTomorrow],
        [first |-> "tomorrow", text |-> <<"a","t"," ">> \o Time5pm \o sp \o WordTomorrow],
        [first |-> "tomorrow", text |-> WordTomorrow \o <<" ","a","t"," ">> \o Time5pm],
        [first |-> "next week", text |-> in2h \o sp \o WordNextWeek],
        [first |-> "next week", text |-> in3m \o sp \o WordNextWeek],
        [first |-> "next week", text |-> Time5pm \o sp \o WordNextWeek],
        [first |-> "hours", text |-> in3m \o sp \o in2h],
        [first |-> "hours", text |-> <<"a","t"," ">> \o Time5pm \o sp \o in2h],
        [first |-> "minutes", text |-> in3m \o <<" ","a","t"," ">> \o Time5pm],
        [first |-> "time", text |-> <<"i","n"," ","3"," ","d","a","y","s">>],
        [first |-> "time", text |-> WordSoon \o <<" ","7">>],
        [first |-> "none", text |-> WordToday],
        [first |-> "none", text |-> <<"a","t"," ","n","o","o","n">>]}

TimeExpressions ==
    {x.text : x \in BareTimeSamples} \cup {x.text : x \in DayTimeSamples}
        \cup {x.text : x \in ExplicitDateSamples}
        \cup {x.text : x \in RelativeSamples}
        \cup UnparseableSamples \cup {WordTomorrow, WordNextWeek}
        \cup {x.text : x \in RuleOrderSamples}

\* what follows the time phrase in some texts
Trailers == {TextAboutDinner, TextAndEggs}

\* texts of a note or a todo: 'Call mom Reminder at <time expression>', some
\* of them with the other keyword or with more text after the time phrase,
\* and texts without the keyword or without a phrase after it
ReminderTexts ==
    {TextCallMom \o KeywordReminder \o e : e \in TimeExpressions}
        \cup {TextCallMom \o k \o e \o tr :
                 k \in {KeywordReminder, KeywordRemainder},
                 e \in {Time5pm, WordTomorrow \o <<" ">> \o Time9am, WordSometime},
                 tr \in Trailers \cup {<<>>}}
        \cup {KeywordOnly \o Time5pm, KeywordOnly, KeywordOnly \o <<" "," ">>,
              TextCallMom, TextCallMom \o <<" ">> \o Time5pm,
              TextCallMom \o <<" ","a","t"," ">> \o Time5pm}

(* ------------------------- parser specification ------------------------ *)
\* a note or todo text is about to be handed to parseReminderFromText
InitParser ==
    /\ InitWebhook
    /\ clock \in Nows
    /\ text \in ReminderTexts
    /\ reminderDetection = NotDetected
    /\ NoReminders

\* const reminderDetection = this.parseReminderFromText(text), in
\* processNoteInput and processTodoInput; new Date() gives the clock
DetectReminder ==
    /\ reminderDetection = NotDetected
    /\ reminderDetection' = parseReminderFromText(text, clock)
    /\ UNCHANGED <<user_input_states, tables, nextId, clock, received, pc,
                   update, no, inputMode, text, reminders, checks, delivered, request, response>>

NextParser == DetectReminder

SpecParser == InitParser /\ [][NextParser]_vars

(* ------------------- processNoteInput, processTodoInput ----------------- *)
\* texts sent under note or todo mode: examples of the prompts of
\* startNoteInput and startTodoInput, a text without the keyword, a text
\* that is only keyword and time, and one whose phrase fits no rule
ProcessTexts ==
    {<<"W","a","k","e"," ","m","e"," ","u","p">> \o KeywordReminder
         \o <<"8","a","m">>,
     <<"C","a","l","l"," ","d","e","n","t","i","s","t">> \o KeywordReminder
         \o WordTomorrow \o <<" ">> \o Time9am,
     TextCallMom \o KeywordReminder \o WordToday \o <<" ","5",":","1","0"," ","p","m">>,
     <<"S","u","b","m","i","t"," ","r","e","p","o","r","t">> \o KeywordReminder
         \o WordToday \o <<" ","6","p","m">>,
     <<"B","i","r","t","h","d","a","y"," ","p","a","r","t","y">> \o KeywordReminder
         \o <<"1","2",":","2",":","2","0","2","6"," ","7","p","m">>,
     TextCallMom \o KeywordReminder \o <<"1","7",":","3","0">>,
     TextCallMom \o KeywordReminder \o WordSoon,
     TextBuyMilk,
     TextCallMom \o <<" ">> \o WordTomorrow,
     KeywordOnly \o <<" ">> \o WordTomorrow \o <<" ">> \o Time9am}

\* handleUserInput is about to call processNoteInput or processTodoInput
\* with the text of the message, for a user whose mode row is note or todo
InitProcess ==
    /\ clock \in Nows
    /\ text \in ProcessTexts
    /\ \E u \in Users, m \in {"note", "todo"} :
           /\ user_input_states =
                  {[id |-> 1, user_id |-> u, mode |-> m, created_at |-> clock]}
           /\ update = [h \in Handlers |->
                            IF h = 1
                            THEN [kind |-> "text", chat |-> u, text |-> text,
                                  data |-> NoData]
                            ELSE NoUpdate]
           /\ inputMode = [h \in Handlers |->
                               IF h = 1
                               THEN [id |-> 1, user_id |-> u, mode |-> m,
                                     created_at |-> clock]
                               ELSE NoState]
    /\ notes = [u \in Users |-> 0]
    /\ todos = [u \in Users |-> 0]
    /\ expenses = [u \in Users |-> 0]
    /\ nextId = 2
    /\ received = 1
    /\ pc = [h \in Handlers |-> IF h = 1 THEN "input" ELSE "idle"]
    /\ no = [h \in Handlers |-> IF h = 1 THEN 1 ELSE 0]
    /\ request = [h \in Handlers |-> NoRequest]
    /\ response = [h \in Handlers |-> NoResponse]
    /\ reminderDetection = NotDetected
    /\ NoReminders

\* positions of handler 1 inside processNoteInput and processTodoInput:
\*   input            before createNote / createTodo
\*   parse            record written, before and after parseReminderFromText
\*   reply            reminder step done, before the reply is sent
\*   reminder_failed  createReminder threw and the error was logged, before
\*                    the reply is sent
\* and clear or catch, as for handleUserInput, when the function has ended

\* await this.db.createNote(...) or await this.db.createTodo(...): the row is
\* written, or the call throws and processing ends in the catch block of
\* handleTelegramUpdate
CreateRecord ==
    /\ pc[1] = "input"
    /\ \/ /\ CASE inputMode[1].mode = "note" -> processNoteInput(1)
               [] inputMode[1].mode = "todo" -> processTodoInput(1)
          /\ pc' = [pc EXCEPT ![1] = "parse"]
       \/ /\ pc' = [pc EXCEPT ![1] = "catch"]
          /\ UNCHANGED tables
    /\ UNCHANGED <<user_input_states, nextId, clock, received, update, no,
                   inputMode, text, reminderDetection, reminders, checks,
                   delivered, request, response>>

\* if (reminderDetection.hasReminder && reminderDetection.reminderTime &&
\* reminderDetection.cleanText) await this.db.createReminder(chatId,
\* cleanText, reminderTime, 'note' or 'todo', id): a number is truthy unless
\* it is 0 or NaN, a string unless it is empty; the row gets the next id and
\* is_sent 0. An error of createReminder is caught and logged.
CreateReminder ==
    /\ pc[1] = "parse"
    /\ reminderDetection # NotDetected
    /\ IF /\ reminderDetection.hasReminder
          /\ reminderDetection.reminderTime \notin {0, NaN}
          /\ reminderDetection.cleanText # <<>>
       THEN \/ /\ reminders' = reminders \cup
                       {[id |-> Cardinality(reminders) + 1,
                         user_id |-> update[1].chat,
                         content |-> reminderDetection.cleanText,
                         reminder_time |-> reminderDetection.reminderTime,
                         source_type |-> inputMode[1].mode,
                         is_sent |-> 0]}
               /\ pc' = [pc EXCEPT ![1] = "reply"]
            \/ /\ pc' = [pc EXCEPT ![1] = "reminder_failed"]
               /\ UNCHANGED reminders
       ELSE /\ pc' = [pc EXCEPT ![1] = "reply"]
            /\ UNCHANGED reminders
    /\ UNCHANGED <<user_input_states, tables, nextId, clock, received, update,
                   no, inputMode, text, reminderDetection, checks, delivered, request, response>>

\* await this.bot.sendMessage(chatId, message, 'Markdown', keyboard): the
\* last statement; when it throws, handleUserInput ends without clearing
SendReply ==
    /\ pc[1] \in {"reply", "reminder_failed"}
    /\ \E p \in {"clear", "catch"} : pc' = [pc EXCEPT ![1] = p]
    /\ UNCHANGED <<user_input_states, tables, nextId, clock, received, update,
                   no, inputMode, text, reminderDetection, reminders, checks,
                   delivered, request, response>>

\* one call of processNoteInput or processTodoInput, statement by statement
SpecProcess ==
    InitProcess
        /\ [][\/ CreateRecord
              \/ pc[1] = "parse" /\ DetectReminder
              \/ CreateReminder
              \/ SendReply]_vars

(* ------------------------ checkAndSendReminders ------------------------- *)
\* positions of a checkAndSendReminders call:
\*   idle   not started
\*   send   in the loop, before sendMessage for the first row left
\*   mark   message sent, before markReminderSent
\*   done   returned
\* pending holds the ids of the rows of its query that are still to be sent

\* reminders created from notes and todos are stored, none is sent yet, and
\* no check has started
InitReminders ==
    /\ InitWebhook
    /\ clock = 0
    /\ text = NoText
    /\ reminderDetection = NotDetected
    /\ \E user \in [1..MaxReminders -> Users], time \in [1..MaxReminders -> 0..MaxClock] :
           reminders = {[id |-> i, user_id |-> user[i], content |-> TextCallMom,
                         reminder_time |-> time[i], source_type |-> "note",
                         is_sent |-> 0] : i \in 1..MaxReminders}
    /\ checks = [c \in Checks |-> [pc |-> "idle", pending |-> <<>>]]
    /\ delivered = [i \in 1..MaxReminders |-> 0]

\* a trigger (the scheduled handler, POST /check-reminders or GET
\* /force-check-reminders) calls checkAndSendReminders, which starts with
\* getPendingReminders: SELECT * FROM reminders WHERE is_sent = 0 AND
\* reminder_time <= now ORDER BY reminder_time ASC (rows of equal time in
\* any order); a storage error is caught there and gives no rows
GetPendingReminders(c) ==
    /\ checks[c].pc = "idle"
    /\ \/ LET due == {r \in reminders : r.is_sent = 0 /\ r.reminder_time <= clock}
          IN \E order \in [1..Cardinality(due) -> due] :
                 /\ \A i, j \in DOMAIN order :
                        i < j => /\ order[i] # order[j]
                                 /\ order[i].reminder_time <= order[j].reminder_time
                 /\ checks' = [checks EXCEPT ![c] =
                        [pc |-> IF due = {} THEN "done" ELSE "send",
                         pending |-> [i \in DOMAIN order |-> order[i].id]]]
       \/ checks' = [checks EXCEPT ![c] = [pc |-> "done", pending |-> <<>>]]
    /\ UNCHANGED <<user_input_states, tables, nextId, clock, received, pc,
                   update, no, inputMode, text, reminderDetection, reminders,
                   delivered, request, response>>

\* await this.bot.sendMessage(reminder.userId, reminderMessage, 'Markdown'):
\* the message arrives, or the call throws and the catch block of
\* checkAndSendReminders ends the run
SendReminder(c) ==
    /\ checks[c].pc = "send"
    /\ \/ /\ delivered' = [delivered EXCEPT ![Head(checks[c].pending)] = @ + 1]
          /\ checks' = [checks EXCEPT ![c].pc = "mark"]
       \/ /\ checks' = [checks EXCEPT ![c] = [pc |-> "done", pending |-> <<>>]]
          /\ UNCHANGED delivered
    /\ UNCHANGED <<user_input_states, tables, nextId, clock, received, pc,
                   update, no, inputMode, text, reminderDetection, reminders,
                   request, response>>

\* await this.db.markReminderSent(reminder.id): UPDATE reminders SET is_sent
\* = 1 WHERE id = ?; a storage error is caught and logged there, and the loop
\* goes on with the next row
MarkReminderSent(c) ==
    /\ checks[c].pc = "mark"
    /\ \/ reminders' = {IF r.id = Head(checks[c].pending)
                        THEN [r EXCEPT !.is_sent = 1] ELSE r : r \in reminders}
       \/ UNCHANGED reminders
    /\ checks' = [checks EXCEPT ![c] =
           [pc |-> IF Len(checks[c].pending) > 1 THEN "send" ELSE "done",
            pending |-> Tail(checks[c].pending)]]
    /\ UNCHANGED <<user_input_states, tables, nextId, clock, received, pc,
                   update, no, inputMode, text, reminderDetection, delivered, request, response>>

\* MaxChecks calls of checkAndSendReminders, which may overlap, while time
\* passes
SpecReminders ==
    InitReminders
        /\ [][\/ \E c \in Checks : GetPendingReminders(c)
              \/ \E c \in Checks : SendReminder(c)
              \/ \E c \in Checks : MarkReminderSent(c)
              \/ Tick]_vars

(* ------------------------------- claims -------------------------------- *)
\* the row of the user's most recent setUserInputState (ids grow with time)
LatestState(u) ==
    IF StatesOf(u) = {} THEN NoState
    ELSE CHOOSE r \in StatesOf(u) : \A q \in StatesOf(u) : q.id <= r.id

ModeOfData(d) ==
    CASE d[1] = "create_note" -> "note"
      [] d[1] = "create_todo" -> "todo"
      [] d[1] = "create_expense" -> "expense"
      [] OTHER -> "none"

ModeOfCommand(t) ==
    CASE Command(t) = TextNote -> "note"
      [] Command(t) = Command(TextTodo) -> "todo"
      [] Command(t) = TextExpense -> "expense"
      [] OTHER -> "none"

\* the handler's step reads the mode row of a text message
ReadsMode(h) ==
    pc[h] = "start" /\ update[h].kind = "text" /\ pc'[h] # "start"

\* the handler's step is the creation part of handleUserInput
RunsCreation(h) == pc[h] = "input" /\ pc'[h] # "input"

\* the handler's text does not parse as '<amount> <description>'
InvalidExpense(h) ==
    inputMode[h].mode = "expense" /\ ~parseExpense(Trim(update[h].text))

\* C1: the user_input_states table holds at most one row per user after any
\* sequence of setUserInputState and clearUserInputState calls.
C1_OneRowPerUser ==
    \A u \in Users : Cardinality(StatesOf(u)) <= 1

\* C2: getUserInputState(U) returns the mode of the most recent
\* setUserInputState(U, M) that no clearUserInputState(U) followed; after
\* set(U, M), set(U, M') it returns M'.
C2_GetReturnsLastSet ==
    [][\A h \in Handlers :
          (ReadsMode(h) /\ pc'[h] \in {"input", "route"})
              => inputMode'[h].mode = LatestState(update[h].chat).mode]_vars

\* C3: when handleUserInput ends, normally or because the creation step
\* threw, the user has no mode row left.
C3_ClearedWhenCreationFails ==
    [][\A h \in Handlers :
          (\/ pc[h] = "input" /\ pc'[h] = "catch"
           \/ pc[h] = "clear" /\ pc'[h] = "done")
              => {r \in user_input_states' : r.user_id = update[h].chat} = {}]_vars

\* C4: a pending mode row is routed to a creation operation by at most one
\* text message, also when the handlers of two text messages interleave: no
\* two handlers have both run the creation step for the same row.
C4_ConsumedOnce ==
    \A h1, h2 \in Handlers :
        (/\ h1 # h2
         /\ pc[h1] \in {"clear", "done"}
         /\ pc[h2] \in {"clear", "done"}
         /\ inputMode[h1] # NoState)
            => inputMode[h1].id # inputMode[h2].id

\* C5: every record that is created is created by a text message of that
\* user, it is a single record, and its kind is the mode the user tapped
\* last; a text message handled with no mode set creates none.
C5_CreationMatchesTappedMode ==
    [][\A u \in Users :
          (notes'[u] # notes[u] \/ todos'[u] # todos[u] \/ expenses'[u] # expenses[u])
              => /\ \E h \in Handlers : RunsCreation(h) /\ update[h].chat = u
                 /\ notes'[u] = notes[u] + (IF LatestState(u).mode = "note" THEN 1 ELSE 0)
                 /\ todos'[u] = todos[u] + (IF LatestState(u).mode = "todo" THEN 1 ELSE 0)
                 /\ expenses'[u] =
                        expenses[u] + (IF LatestState(u).mode = "expense" THEN 1 ELSE 0)]_vars

\* C6 as written: a command /note, /todo or /expense handled while the user
\* has no mode leaves the user in the mode of the command.
C6_CommandSetsMode ==
    [][\A h \in Handlers :
          (/\ pc[h] = "route" /\ pc'[h] = "done"
           /\ ModeOfCommand(update[h].text) # "none"
           /\ StatesOf(update[h].chat) = {})
              => \E r \in user_input_states' :
                     /\ r.user_id = update[h].chat
                     /\ r.mode = ModeOfCommand(update[h].text)]_vars

\* C6 as amended: a command /note, /todo or /expense handled while the user
\* has no mode leaves user_input_states as it was (the user stays in None);
\* a button tap create_note, create_todo or create_expense handled while the
\* user has no mode leaves the user with exactly one row, of the tapped mode.
C6_OnlyButtonsSetMode ==
    [][\A h \in Handlers :
          /\ (pc[h] = "route" /\ pc'[h] # "route" /\ StartsWithSlash(update[h].text))
                 => user_input_states' = user_input_states
          /\ (/\ pc[h] = "start" /\ pc'[h] = "done"
              /\ update[h].kind = "callback"
              /\ ModeOfData(update[h].data) # "none"
              /\ StatesOf(update[h].chat) = {})
                 => {r.mode : r \in {q \in user_input_states' :
                                        q.user_id = update[h].chat}}
                        = {ModeOfData(update[h].data)}]_vars

\* a /note command of a user with no mode has been handled, and the user
\* still has no mode
C6_Witness ==
    \E h \in Handlers :
        /\ pc[h] = "done"
        /\ update[h].kind = "text"
        /\ ModeOfCommand(update[h].text) = "note"
        /\ inputMode[h] = NoState
        /\ StatesOf(update[h].chat) = {}

\* C7: a text that does not parse as an expense, consumed under expense
\* mode, creates no record, and when handleUserInput returns the user has no
\* mode row left.
C7_InvalidExpenseStillClears ==
    [][\A h \in Handlers :
          InvalidExpense(h)
              => /\ RunsCreation(h) => <<notes, todos, expenses>>' = <<notes, todos, expenses>>
                 /\ (pc[h] = "clear" /\ pc'[h] = "done")
                        => {r \in user_input_states' : r.user_id = update[h].chat} = {}]_vars

\* handleUserInput has returned for a text that is no expense, consumed
\* under expense mode: nothing was recorded and the mode is gone
C7_Witness ==
    \E h \in Handlers :
        /\ pc[h] = "done"
        /\ InvalidExpense(h)
        /\ expenses[update[h].chat] = 0
        /\ StatesOf(update[h].chat) = {}

\* C8: the mode rows of a user change only in a step that clears them for a
\* text message of that user or that starts a mode from a create_* button of
\* that user; photo messages, other callback queries, reads, other users and
\* the passage of time leave them unchanged.
C8_ModeChangesOnlyByTextOrStart ==
    [][\A u \in Users :
          {r \in user_input_states' : r.user_id = u} # StatesOf(u)
              => \E h \in Handlers :
                    /\ update[h].chat = u
                    /\ \/ pc[h] = "clear" /\ update[h].kind = "text"
                       \/ /\ pc[h] = "start"
                          /\ update[h].kind = "callback"
                          /\ ModeOfData(update[h].data) # "none"]_vars

\* a mode row written at an earlier time is still pending after a photo
\* message of the same user has been handled
C8_Witness ==
    \E h \in Handlers :
        /\ pc[h] = "done"
        /\ update[h].kind = "photo"
        /\ \E r \in StatesOf(update[h].chat) : r.created_at < clock

\* C9: a storage error of the mode read does not abort the turn: the text
\* message goes on to handleUserInput or to default handling.
C9_ReadFailureFallsBack ==
    [][\A h \in Handlers : ReadsMode(h) => pc'[h] \in {"input", "route"}]_vars

\* C10: when a text message that consumed mode M arrived before a create_*
\* tap of the same user for another mode M' and both have been handled, the
\* user's mode is M'.
C10_LaterSetSurvives ==
    \A h1, h2 \in Handlers :
        (/\ pc[h1] = "done" /\ update[h1].kind = "text" /\ inputMode[h1] # NoState
         /\ pc[h2] = "done" /\ update[h2].kind = "callback"
         /\ ModeOfData(update[h2].data) # "none"
         /\ update[h1].chat = update[h2].chat
         /\ inputMode[h1].mode # ModeOfData(update[h2].data)
         /\ no[h1] < no[h2]
         /\ \A h3 \in Handlers \ {h1, h2} : update[h3].chat # update[h1].chat)
            => {r.mode : r \in StatesOf(update[h1].chat)} = {ModeOfData(update[h2].data)}
\* C11: clearUserInputState is idempotent and total: whatever number of rows
\* the user had, a completed call leaves the user with no mode
\* (getUserInputState returns none) and the rows of the other users as they
\* were; a second call right after it, which is a call for a user with no
\* record, completes and changes nothing.
C11_ClearIdempotent ==
    [][\A h \in Handlers :
          (pc[h] = "clear" /\ pc'[h] = "done")
              => LET u == update[h].chat
                     once == user_input_states'
                     twice == clearUserInputState(once, u)
                 IN /\ getUserInputState(once, u) = {NoState}
                    /\ twice = once
                    /\ getUserInputState(twice, u) = {NoState}
                    /\ \A v \in Users \ {u} :
                           {r \in once : r.user_id = v} = StatesOf(v)]_vars

\* a text message has been consumed and its clearUserInputState call has
\* deleted both rows that two button taps had written for the user
C11_Witness ==
    \E h \in Handlers :
        /\ pc[h] = "done"
        /\ update[h].kind = "text"
        /\ inputMode[h] # NoState
        /\ received = 3
        /\ nextId = 3
        /\ user_input_states = {}
\* parseReminderFromText has returned
Detected == reminderDetection # NotDetected

\* text is 'Call mom Reminder at ' followed by the phrase e
Says(e) == text = TextCallMom \o KeywordReminder \o e

\* t contains 'reminder' or 'remainder', white space, 'at', white space and
\* at least one more character, in any letter case
ContainsKeywordPhrase(t) ==
    \E k \in {<<"r","e","m","i","n","d","e","r">>,
              <<"r","e","m","a","i","n","d","e","r">>} :
        \E i \in 1..(Len(t) - Len(k) + 1) :
            /\ SubSeq(ToLowerCase(t), i, i + Len(k) - 1) = k
            /\ \E a \in (i + Len(k) + 1)..(Len(t) - 3) :
                   /\ \A j \in (i + Len(k))..(a - 1) : t[j] \in Whitespace
                   /\ SubSeq(ToLowerCase(t), a, a + 1) = <<"a","t">>
                   /\ t[a + 2] \in Whitespace

\* C12: parseReminderFromText reports hasReminder = true if and only if the
\* text contains 'reminder at' or 'remainder at' (in any letter case)
\* followed by a non-empty phrase; reminderTime and cleanText are present
\* exactly when hasReminder is true.
C12_KeywordDecidesHasReminder ==
    Detected =>
        /\ reminderDetection.hasReminder <=> ContainsKeywordPhrase(text)
        /\ DOMAIN reminderDetection =
               IF reminderDetection.hasReminder
               THEN {"hasReminder", "reminderTime", "cleanText"}
               ELSE {"hasReminder"}

\* C13: a time phrase after the keyword that matches none of the rules 1-8
\* ('sometime', 'soon') gives hasReminder = false, not the time one hour
\* from now.
C13_UnparseablePhraseNotFound ==
    \A e \in UnparseableSamples :
        (Detected /\ Says(e)) => ~reminderDetection.hasReminder

\* C14: cleanText is the text without the keyword and the time phrase:
\* 'Call mom' for 'Call mom Reminder at tomorrow 9am', and the words that
\* follow the time phrase ('about dinner') stay in it.
C14_WordsAfterTimePhraseKept ==
    (Detected /\ reminderDetection.hasReminder) =>
        /\ Says(WordTomorrow \o <<" ">> \o Time9am)
               => reminderDetection.cleanText = TextCallMom
        /\ Says(Time5pm \o TextAboutDinner)
               => Includes(reminderDetection.cleanText, Trim(TextAboutDinner))
\* days of month m (1 = January) of year y
DaysInMonth(y, m) ==
    IF m = 2 THEN (IF DaysInYear(y) = 366 THEN 29 ELSE 28)
    ELSE IF m \in {4, 6, 9, 11} THEN 30 ELSE 31

RECURSIVE DaysOfYearsBefore(_)
DaysOfYearsBefore(y) ==
    IF y <= 1970 THEN 0 ELSE DaysOfYearsBefore(y - 1) + DaysInYear(y - 1)

RECURSIVE DaysOfMonthsBefore(_, _)
DaysOfMonthsBefore(y, m) ==
    IF m <= 1 THEN 0 ELSE DaysOfMonthsBefore(y, m - 1) + DaysInMonth(y, m - 1)

\* the time value of the calendar date y-m-d at hh:mm, counted day by day
CivilTime(y, m, d, hh, mm) ==
    (DaysOfYearsBefore(y) + DaysOfMonthsBefore(y, m) + d - 1) * UnitsPerDay
        + hh * UnitsPerHour + mm * UnitsPerMinute

\* the hour of the day that hour h with marker ampm denotes
Hour24(h, ampm) ==
    IF ampm = PM THEN (h % 12) + 12 ELSE IF ampm = AM THEN h % 12 ELSE h

\* hour and minute a written time of day denotes
HourOf(t) == Hour24(t.hour, t.ampm)
MinuteOf(t) == IF t.minutes = <<>> THEN 0 ELSE t.minutes[1]

\* a written time of day that names a time: 1-12 with am/pm, 0-23 without
ValidTime(t) == t.ampm = <<>> \/ t.hour \in 1..12

C16_YearFirstDate ==
    Detected =>
        \A x \in ExplicitDateSamples :
            (x.style = "-" /\ Says(x.text)) =>
                /\ reminderDetection.hasReminder
                /\ reminderDetection.reminderTime =
                       IF x.time = <<>>
                       THEN CivilTime(x.date.year, x.date.month, x.date.day, 9, 0)
                       ELSE CivilTime(x.date.year, x.date.month, x.date.day,
                                      HourOf(x.time[1]), MinuteOf(x.time[1]))

\* C17: 'today H[:MM] [am|pm]' is that time on the calendar date of now and
\* 'tomorrow H[:MM] [am|pm]' is that time on the following date, for every
\* now: 'today 6pm' at 2024-01-15 10:00 is 2024-01-15 18:00, 'tomorrow 9am'
\* at 2024-01-15 00:00 is 2024-01-16 09:00.
C17_TodayAndTomorrow ==
    Detected =>
        /\ \A x \in DayTimeSamples :
               (ValidTime(x.time) /\ Says(x.text)) =>
                   /\ reminderDetection.hasReminder
                   /\ reminderDetection.reminderTime =
                          ((clock \div UnitsPerDay) + x.days) * UnitsPerDay
                              + HourOf(x.time) * UnitsPerHour
                              + MinuteOf(x.time) * UnitsPerMinute
        /\ (clock = CivilTime(2024, 1, 15, 10, 0)
                /\ Says(WordToday \o <<" ","6","p","m">>))
               => reminderDetection.reminderTime = CivilTime(2024, 1, 15, 18, 0)
        /\ (clock = CivilTime(2024, 1, 15, 0, 0)
                /\ Says(WordTomorrow \o <<" ","9","a","m">>))
               => reminderDetection.reminderTime = CivilTime(2024, 1, 16, 9, 0)

\* 'tomorrow 12 PM' has been parsed on the last day of February of a leap
\* year, half an hour before midnight, and gave noon of March 1st
C17_Witness ==
    /\ clock = CivilTime(2024, 2, 29, 23, 30)
    /\ Says(WordTomorrow \o <<" ","1","2"," ","P","M">>)
    /\ Detected
    /\ reminderDetection.hasReminder
    /\ reminderDetection.reminderTime = CivilTime(2024, 3, 1, 12, 0)
\* the hour rule 8 computes for a written time of day at now: the marker
\* decides, and without one an hour up to 12 written in the afternoon is
\* taken as an afternoon hour
Rule8Hour(t, now) ==
    IF t.ampm # <<>> THEN HourOf(t)
    ELSE IF t.hour <= 12 /\ (now % UnitsPerDay) \div UnitsPerHour >= 12
    THEN t.hour + 12
    ELSE t.hour

\* that time of day on the calendar date of now
Rule8Today(t, now) ==
    (now \div UnitsPerDay) * UnitsPerDay + Rule8Hour(t, now) * UnitsPerHour
        + MinuteOf(t) * UnitsPerMinute

\* C18: a bare time of day in each of the four styles ('H:MM am/pm',
\* 'H am/pm', 'H:MM', 'H'), with or without 'at' before it, gives a valid
\* timestamp at that hour and minute (minute 0 when none is written), today
\* or tomorrow: '8am' is 08:00 and 'at 5pm' is 17:00.
C18_BareTimeOfDay ==
    Detected =>
        \A x \in BareTimeSamples :
            (ValidTime(x.time) /\ Says(x.text)) =>
                /\ reminderDetection.hasReminder
                /\ reminderDetection.reminderTime # NaN
                /\ reminderDetection.reminderTime % UnitsPerDay =
                       ((Rule8Hour(x.time, clock) % 24) * UnitsPerHour
                            + MinuteOf(x.time) * UnitsPerMinute)
                /\ reminderDetection.reminderTime \div UnitsPerDay
                       \in {clock \div UnitsPerDay, (clock \div UnitsPerDay) + 1}

\* C19: rule 8 never gives a time at or before now: the result is the
\* computed time on the date of now when that is after now, and the same
\* time of day on the next day otherwise (a bare hour equal to the current
\* hour included).
C19_BareTimeAfterNow ==
    Detected =>
        \A x \in BareTimeSamples :
            (ValidTime(x.time) /\ Says(x.text)) =>
                /\ reminderDetection.reminderTime # NaN
                /\ reminderDetection.reminderTime > clock
                /\ reminderDetection.reminderTime =
                       IF Rule8Today(x.time, clock) > clock
                       THEN Rule8Today(x.time, clock)
                       ELSE Rule8Today(x.time, clock) + UnitsPerDay

\* C20: 'in N hours' is now + N * 3,600,000 ms and 'in N minutes' is
\* now + N * 60,000 ms, for every N and every now; 'in 2 hours' is
\* now + 7,200,000 ms.
C20_RelativeTime ==
    Detected =>
        /\ \A x \in RelativeSamples :
               Says(x.text) =>
                   /\ reminderDetection.hasReminder
                   /\ (reminderDetection.reminderTime - clock) * MsPerUnit =
                          x.n * (IF x.unit = "hour" THEN 3600000 ELSE 60000)
        /\ Says(<<"i","n"," ","2"," ","h","o","u","r","s">>)
               => (reminderDetection.reminderTime - clock) * MsPerUnit = 7200000

\* 'in 2 hours' has been parsed at 10:00:30 and gave 12:00:30 of that day
C20_Witness ==
    /\ clock = CivilTime(2024, 1, 15, 10, 0) + 1
    /\ Says(<<"i","n"," ","2"," ","h","o","u","r","s">>)
    /\ Detected
    /\ reminderDetection.hasReminder
    /\ reminderDetection.reminderTime = CivilTime(2024, 1, 15, 12, 0) + 1
\* C21: 'tomorrow' with no time of day is 09:00 on the calendar date after
\* now, and 'next week' is 09:00 on the calendar date 7 days after now,
\* whatever the time of day of now: 'tomorrow' at 2024-02-29 23:30 is
\* 2024-03-01 09:00, 'next week' at 2024-12-31 12:15 is 2025-01-07 09:00.
C21_TomorrowAndNextWeek ==
    Detected =>
        /\ Says(WordTomorrow) =>
               /\ reminderDetection.hasReminder
               /\ reminderDetection.reminderTime =
                      ((clock \div UnitsPerDay) + 1) * UnitsPerDay + 9 * UnitsPerHour
        /\ Says(WordNextWeek) =>
               /\ reminderDetection.hasReminder
               /\ reminderDetection.reminderTime =
                      ((clock \div UnitsPerDay) + 7) * UnitsPerDay + 9 * UnitsPerHour
        /\ (clock = CivilTime(2024, 2, 29, 23, 30) /\ Says(WordTomorrow))
               => reminderDetection.reminderTime = CivilTime(2024, 3, 1, 9, 0)
        /\ (clock = CivilTime(2024, 12, 31, 12, 15) /\ Says(WordNextWeek))
               => reminderDetection.reminderTime = CivilTime(2025, 1, 7, 9, 0)

\* 'next week' has been parsed on the last day of 2024 and gave 09:00 of
\* January 7th, 2025
C21_Witness ==
    /\ clock = CivilTime(2024, 12, 31, 12, 15)
    /\ Says(WordNextWeek)
    /\ Detected
    /\ reminderDetection.hasReminder
    /\ reminderDetection.reminderTime = CivilTime(2025, 1, 7, 9, 0)
\* the hour of the day of a time value
HourOfDay(t) == (t % UnitsPerDay) \div UnitsPerHour

\* the written time of day x has the hour the marker rule gives it in the
\* result: 12 am is 0, H pm is H + 12 for H in 1..11, 12 pm is 12, and
\* without a marker the hour is the written one
KeepsHour(t) ==
    /\ reminderDetection.hasReminder
    /\ reminderDetection.reminderTime # NaN
    /\ HourOfDay(reminderDetection.reminderTime) =
           IF t.ampm = AM /\ t.hour = 12 THEN 0
           ELSE IF t.ampm = PM /\ t.hour # 12 THEN t.hour + 12
           ELSE t.hour

\* C25: the am/pm rule holds wherever a time of day is read (after an
\* explicit date, after 'today', after 'tomorrow', and on its own): 12 am
\* is hour 0, H pm is H + 12 for H in 1..11, 12 pm is 12, and a time 'H:MM'
\* without am/pm keeps its hour ('9:30' is 09:30 whatever the hour of now).
C25_AmPmNormalization ==
    Detected =>
        /\ \A x \in ExplicitDateSamples :
               (x.time # <<>> /\ Says(x.text)) => KeepsHour(x.time[1])
        /\ \A x \in DayTimeSamples :
               (ValidTime(x.time) /\ Says(x.text)) => KeepsHour(x.time)
        /\ \A x \in BareTimeSamples :
               (/\ ValidTime(x.time)
                /\ x.time.ampm # <<>> \/ x.time.minutes # <<>>
                /\ Says(x.text)) => KeepsHour(x.time)
\* the result of the rule that is first in the order of the code among those
\* whose pattern matches in a sample of RuleOrderSamples: the date 12:2:2026
\* or 12/2/2026 at 09:00, today 6pm, tomorrow 7pm, tomorrow, next week, in 2
\* hours, in 3 minutes
FirstRuleTime(first, now) ==
    CASE first = "date" -> CivilTime(2026, 12, 2, 9, 0)
      [] first = "today" -> (now \div UnitsPerDay) * UnitsPerDay + 18 * UnitsPerHour
      [] first = "tomorrow at" ->
             ((now \div UnitsPerDay) + 1) * UnitsPerDay + 19 * UnitsPerHour
      [] first = "tomorrow" ->
             ((now \div UnitsPerDay) + 1) * UnitsPerDay + 9 * UnitsPerHour
      [] first = "next week" ->
             ((now \div UnitsPerDay) + 7) * UnitsPerDay + 9 * UnitsPerHour
      [] first = "hours" -> now + 2 * UnitsPerHour
      [] first = "minutes" -> now + 3 * UnitsPerMinute

\* C26: the rules are tried in the fixed order 1..8 and the first whose
\* pattern matches anywhere in the expression decides: an explicit date wins
\* over 'tomorrow', 'next week', 'in N hours' and a bare time; 'today' +
\* time and 'tomorrow' + time win over the later rules; 'tomorrow' wins over
\* 'next week' and 'in N hours'; 'next week' over 'in N hours' and 'in N
\* minutes'; 'in N hours' over 'in N minutes'; every one of them over a bare
\* time of day, wherever in the expression the phrases stand.
C26_FirstRuleWins ==
    Detected =>
        \A x \in RuleOrderSamples :
            (x.first \notin {"time", "none"} /\ Says(x.text)) =>
                /\ reminderDetection.hasReminder
                /\ reminderDetection.reminderTime = FirstRuleTime(x.first, clock)

\* 'in 3 minutes in 2 hours' has been parsed at 14:00 and gave 16:00
C26_Witness ==
    /\ clock = CivilTime(2024, 1, 15, 14, 0)
    /\ Says(<<"i","n"," ","3"," ","m","i","n","u","t","e","s"," ",
              "i","n"," ","2"," ","h","o","u","r","s">>)
    /\ Detected
    /\ reminderDetection.hasReminder
    /\ reminderDetection.reminderTime = CivilTime(2024, 1, 15, 16, 0)
\* the expression e has a digit; it has the word 'tomorrow' or 'next week'
HasDigit(e) == \E i \in DOMAIN e : e[i] \in Digits
HasDayWord(e) ==
    \E w \in {WordTomorrow, WordNextWeek} :
        \E i \in 1..(Len(e) - Len(w) + 1) :
            \A k \in 1..Len(w) : Lower(e[i + k - 1]) = w[k]

\* a lone hour h, as a written time of day
LoneHour(h) == [hour |-> h, minutes |-> <<>>, ampm |-> <<>>]

\* the result of rule 8 for the written time of day t at now
Rule8Time(t, now) ==
    IF Rule8Today(t, now) > now THEN Rule8Today(t, now)
    ELSE Rule8Today(t, now) + UnitsPerDay

\* C30: parseTimeExpression returns the fallback now + 1 hour if and only if
\* the expression has no digit, no 'tomorrow' and no 'next week': without
\* them the result is now + 1 h, with 'tomorrow' or 'next week' and no digit
\* it is 09:00 of a later day, and with a digit one of the patterns of rules
\* 1-8 matches and decides ('in 3 days' is resolved by the bare time rule as
\* hour 3).
C30_FallbackOnlyWithoutDigit ==
    (Detected /\ reminderDetection.hasReminder) =>
        /\ \A e \in TimeExpressions :
               Says(e) =>
                   /\ (~HasDigit(e) /\ ~HasDayWord(e))
                          => reminderDetection.reminderTime = clock + 3600000 \div MsPerUnit
                   /\ HasDigit(e) => FirstMatching(ToLowerCase(e), timeFormats) # 0
                   /\ (~HasDigit(e) /\ HasDayWord(e))
                          => /\ reminderDetection.reminderTime % UnitsPerDay = 9 * UnitsPerHour
                             /\ reminderDetection.reminderTime \div UnitsPerDay
                                    \in {(clock \div UnitsPerDay) + 1,
                                         (clock \div UnitsPerDay) + 7}
        /\ Says(<<"i","n"," ","3"," ","d","a","y","s">>)
               => reminderDetection.reminderTime = Rule8Time(LoneHour(3), clock)
        /\ Says(WordSoon \o <<" ","7">>)
               => reminderDetection.reminderTime = Rule8Time(LoneHour(7), clock)

\* 'in 3 days' has been parsed at 14:00 and gave 15:00 of the same day
C30_Witness ==
    /\ clock = CivilTime(2024, 1, 15, 14, 0)
    /\ Says(<<"i","n"," ","3"," ","d","a","y","s">>)
    /\ Detected
    /\ reminderDetection.hasReminder
    /\ reminderDetection.reminderTime = CivilTime(2024, 1, 15, 15, 0)
\* C29: every timestamp that parseReminderFromText returns with hasReminder
\* = true is a valid instant strictly after now, whichever rule gave it
\* (explicit date, 'today' + time, 'tomorrow', 'next week', 'in N hours' or
\* minutes, bare time, fallback).
C29_ReminderTimeAfterNow ==
    (Detected /\ reminderDetection.hasReminder) =>
        /\ reminderDetection.reminderTime # NaN
        /\ reminderDetection.reminderTime > clock
\* the text under processing is the keyword example e of a prompt
IsExample(e) == text = e

\* C22: processing a note or todo text saves the note or todo exactly once,
\* whether or not a time expression is found; when the parse reports
\* hasReminder = false no reminder is created, and when it reports
\* hasReminder = true, as for 'Wake me up Reminder at 8am' and 'Call dentist
\* Reminder at tomorrow 9am', exactly one reminder is created, with the
\* parsed timestamp and the remainder text.
C22_OneRecordAndReminderIffFound ==
    pc[1] = "reply" =>
        LET u == update[1].chat
        IN /\ notes[u] = (IF inputMode[1].mode = "note" THEN 1 ELSE 0)
           /\ todos[u] = (IF inputMode[1].mode = "todo" THEN 1 ELSE 0)
           /\ ~reminderDetection.hasReminder => reminders = {}
           /\ reminderDetection.hasReminder =>
                  \E r \in reminders :
                      /\ reminders = {r}
                      /\ r.user_id = u
                      /\ r.reminder_time = reminderDetection.reminderTime
                      /\ r.content = reminderDetection.cleanText
           /\ (\/ IsExample(<<"W","a","k","e"," ","m","e"," ","u","p"," ",
                              "R","e","m","i","n","d","e","r"," ","a","t"," ",
                              "8","a","m">>)
               \/ IsExample(<<"C","a","l","l"," ","d","e","n","t","i","s","t"," ",
                              "R","e","m","i","n","d","e","r"," ","a","t"," ",
                              "t","o","m","o","r","r","o","w"," ","9","a","m">>))
                  => Cardinality(reminders) = 1
\* C27: while the user has a mode row, every text message of the user is
\* consumed as input for a pending mode, a text that starts with '/'
\* included: the command is not routed, the text goes to the creation
\* operation of the mode (which records it, or rejects it as an expense),
\* and when handleUserInput returns the user has no mode row; a command is
\* routed only when the read found no mode.
C27_SlashTextConsumedAsInput ==
    [][\A h \in Handlers :
          /\ (ReadsMode(h) /\ pc'[h] # "catch")
                 => /\ pc'[h] = (IF StatesOf(update[h].chat) # {} THEN "input"
                                 ELSE "route")
                    /\ pc'[h] = "input" => inputMode'[h] \in StatesOf(update[h].chat)
          /\ pc[h] = "route" => inputMode[h] = NoState
          /\ (pc[h] = "input" /\ pc'[h] = "clear")
                 => LET u == update[h].chat
                        m == inputMode[h].mode
                        made == IF m = "expense" /\ InvalidExpense(h) THEN 0 ELSE 1
                    IN /\ notes'[u] = notes[u] + (IF m = "note" THEN made ELSE 0)
                       /\ todos'[u] = todos[u] + (IF m = "todo" THEN made ELSE 0)
                       /\ expenses'[u] =
                              expenses[u] + (IF m = "expense" THEN made ELSE 0)
                       /\ user_input_states' = user_input_states
          /\ (pc[h] = "input" \/ pc[h] = "clear") => pc'[h] # "route"
          /\ (pc[h] = "clear" /\ pc'[h] = "done")
                 => {r \in user_input_states' : r.user_id = update[h].chat} = {}]_vars

\* the text '/note', sent while the user's mode was todo, has been recorded
\* as a todo and the user has no mode row left
C27_Witness ==
    \E h \in Handlers :
        /\ pc[h] = "done"
        /\ update[h].kind = "text"
        /\ update[h].text = TextNote
        /\ inputMode[h].mode = "todo"
        /\ todos[update[h].chat] = 1
        /\ notes[update[h].chat] = 0
        /\ StatesOf(update[h].chat) = {}
\* C28: each reminder is delivered at most once: after any checks, two that
\* overlap and checks with a failing send or mark-sent step included, no
\* reminder has been sent to its user more than once, and a row with is_sent
\* = 1 is never sent again.
C28_DeliveredAtMostOnce ==
    [][\A r \in reminders :
          /\ delivered'[r.id] <= 1
          /\ r.is_sent = 1 => delivered'[r.id] = delivered[r.id]]_vars

\* C23: POST /webhook with a JSON update is answered 200 'OK' whatever
\* happens while the update is handled: the response is given after
\* handleTelegramUpdate has returned, a failure ends in its catch block and
\* the call returns from there, the apology is sent at most once (after it
\* only the response follows), and a failed apology leads to the same 'OK'
C23_WebhookAlwaysOK ==
    [][\A h \in Handlers :
          /\ (/\ request[h].method = "POST"
              /\ request[h].path = "/webhook"
              /\ request[h].BOT_TOKEN
              /\ request[h].body \in TelegramUpdate
              /\ response[h] = NoResponse
              /\ response'[h] # NoResponse)
             => /\ response'[h] = [status |-> 200, text |-> "OK"]
                /\ Returned(h)
          /\ pc[h] = "catch" => pc'[h] \in {"catch", "apologized", "aborted"}
          /\ pc[h] \in {"apologized", "aborted"} /\ pc'[h] # pc[h]
             => pc'[h] = "middleware" /\ response[h].status = 200]_vars

\* an update whose handling failed and whose apology was not sent either has
\* been answered 'OK'
C23_Witness ==
    \E h \in Handlers :
        /\ pc[h] = "aborted"
        /\ update[h].kind = "text"
        /\ response[h] = [status |-> 200, text |-> "OK"]

\* C24: without BOT_TOKEN every request, whatever its path and method, is
\* answered 500 'Bot token not configured' and neither a route handler nor
\* the update handling runs; with the token, a request no route matches (an
\* unknown path, GET /webhook) is answered 404 'Not Found'
C24_TokenCheckBeforeRouting ==
    \A h \in Handlers :
        /\ request[h] # NoRequest /\ ~request[h].BOT_TOKEN
           => /\ pc[h] \in {"middleware", "responded"}
              /\ update[h] = NoUpdate
              /\ pc[h] = "responded"
                 => response[h] =
                        [status |-> 500, text |-> "Bot token not configured"]
        /\ (/\ request[h].BOT_TOKEN
            /\ response[h] # NoResponse
            /\ \/ request[h].path = "/unknown"
               \/ request[h].method = "GET" /\ request[h].path = "/webhook")
           => response[h] = [status |-> 404, text |-> "Not Found"]
        /\ pc[h] = "responded" => response[h] # NoResponse

\* a GET request for an unknown path, served without BOT_TOKEN, was answered
\* 500 by the middleware
C24_Witness ==
    /\ received = MaxRequests
    /\ \E h \in Handlers :
           /\ request[h].method = "GET"
           /\ request[h].path = "/unknown"
           /\ ~request[h].BOT_TOKEN
           /\ response[h] = [status |-> 500, text |-> "Bot token not configured"]
====
